---------------------------- MODULE Spec2Model ----------------------------
(***************************************************************************)
(* Verification model of the 9router request pipeline.                     *)
(*                                                                         *)
(*   Spec       the local credential pool (src/sse/services/auth.js):      *)
(*              getProviderCredentials under the selection mutex,          *)
(*              markAccountUnavailable, clearAccountError, model locks;    *)
(*              two concurrent requests.                                   *)
(*   SpecSeq    the same pool, one request at a time, any arguments.       *)
(*   SpecRR     the same pool, one request at a time, no failure.          *)
(*   SpecCloud  the cloud worker's fallback loop and its credential        *)
(*              functions on the machine document (handleSingleModelChat). *)
(*   SpecStream createSSEStream (open-sse/utils/stream.js): transform and  *)
(*              flush on an upstream text delivered in arbitrary chunks.   *)
(*                                                                         *)
(* Time is a discrete clock `now`; one unit is 15 s, the smallest cooldown *)
(* of the fallback policy.  Two reads of the clock with no Tick between    *)
(* them return the same value, as two Date.now() calls may.  The value 0   *)
(* of a timestamp field stands for null / absent.  lastErrorAt and         *)
(* updatedAt are written and never read, and are left out.                 *)
(***************************************************************************)
EXTENDS Integers, Sequences, FiniteSets, TLC

\* ------------------------------------------------------------------ bounds
MaxTime == 3
MaxCalls == 2
MaxSeqCalls == 3
MaxRRCalls == 5
MaxPriority == 2
MaxChats == 2
MaxStreamLen == 5
MaxLockTime == 5
MaxIdLen == 2
MaxFetches == 6
MaxEvents == 3

\* --------------------------------------------------------------- constants
None == "none"
\* the connections of the pool, in the DB's row order
ConnOrder == <<"A", "B">>
ConnIds == {ConnOrder[i] : i \in 1 .. Len(ConnOrder)}
Reqs == {"r1", "r2"}
ChatReqs == {"q1", "q2"}
\* the upstream text, in units: "J" a data line with content, "E" a data line
\* without valuable content, "X" the text `data: [DONE]`, "n" a newline
Symbols == {"J", "E", "X", "n"}
STREAM_MODE == {"translate", "passthrough"}
Models == {"m1", "m2"}
Providers == {"antigravity", "openai"}
Strategies == {"fill-first", "round-robin"}
Priorities == 0 .. MaxPriority

VARIABLES
    now,              \* Date.now()
    conns,            \* the provider's connections in the local DB
    modelLocks,       \* Map<"connectionId:model", expiry>; 0: no entry
    settings,         \* getSettings(): fallbackStrategy
    provider,         \* the provider the pool belongs to
    selectionMutex,   \* the promise the next call will await
    resolved,         \* promises whose resolve() has run
    callsLeft,        \* getProviderCredentials calls the run may still start
    pc,               \* where each request is
    call,             \* each request's getProviderCredentials / mark frame
    obs,              \* ghost: the pool as it was when the call filtered it
    selLog,           \* ghost: the connections returned, in order
    failLevel,        \* ghost: the level the last failure left, -1 after a success
    env,              \* the callers: who calls, with which arguments and failures
    machine,          \* cloud worker: the providers of the machine's stored document
    chatsLeft,        \* cloud worker: chat requests the run may still start
    chatPc,           \* cloud worker: where each chat request is
    chat,             \* cloud worker: each handleSingleModelChat frame
    mode,             \* SSE stream: translate or passthrough
    upstream,         \* SSE stream: the provider's text not yet delivered
    buffer,           \* SSE stream: the carried-over partial line
    controller,       \* SSE stream: the text enqueued for the client
    streamPc,         \* SSE stream: open, flushed, or off
    keyIds,           \* API key: the machineId and keyId a key is issued for
    apiKey,           \* API key: the key text presented to parseApiKey
    tampered,         \* API key: one character of the issued key was changed
    parsedKey,        \* API key: what parseApiKey returned
    keyPc,            \* API key: ids, issued, parsed, or off
    apiKeys,          \* cloud worker: the apiKeys of the machine's data
    gate,             \* cloud worker: the last request and how it was answered
    execution,        \* AntigravityExecutor.execute: its loop state
    refresh,          \* cloud worker: one chat's checkAndRefreshToken frame
    engine,           \* createSSEStream: one stream's closure state, chunk by chunk
    kiro,             \* buildKiroPayload: the messages of one body and the payload
    queue             \* request details: writeBuffer, flushTimer, isFlushing, the callers

poolVars == <<conns, modelLocks, settings, provider, selectionMutex,
              resolved, callsLeft, pc, call, obs, selLog, failLevel>>
cloudVars == <<machine, chatsLeft, chatPc, chat>>
streamVars == <<mode, upstream, buffer, controller, streamPc>>

keyVars == <<keyIds, apiKey, tampered, parsedKey, keyPc>>
gateVars == <<apiKeys, gate>>
auxVars == <<kiro, queue>>
edgeVars == <<keyVars, gateVars, execution, refresh, engine, auxVars>>

vars == <<now, env, poolVars, cloudVars, streamVars, edgeVars>>

\* ------------------------------------------------------------ small helpers
Min2(a, b) == IF a <= b THEN a ELSE b

RECURSIVE Pow2(_)
Pow2(n) == IF n <= 0 THEN 1 ELSE 2 * Pow2(n - 1)

\* Array.prototype.sort with a comparator: stable, so an element precedes
\* another iff it compares smaller, or equal and earlier in the input.
StableSort(s, cmp(_, _)) ==
    LET rank(i) == Cardinality({j \in 1 .. Len(s) :
                        \/ cmp(s[j], s[i]) < 0
                        \/ (cmp(s[j], s[i]) = 0 /\ j < i)}) + 1
    IN  [k \in 1 .. Len(s) |-> s[CHOOSE i \in 1 .. Len(s) : rank(i) = k]]

FilterSeq(s, Keep(_)) ==
    LET F[i \in 0 .. Len(s)] ==
            IF i = 0 THEN <<>>
            ELSE IF Keep(s[i]) THEN Append(F[i - 1], s[i]) ELSE F[i - 1]
    IN  F[Len(s)]

Range(s) == {s[i] : i \in 1 .. Len(s)}

\* ------------------------------------------------- fallback policy (15 s units)
COOLDOWN_UNAUTHORIZED == 4       \* 401, 403: 60 s
COOLDOWN_PAYMENT == 5760         \* 402: 24 h
COOLDOWN_SERVER == 2             \* 5xx: 30 s
COOLDOWN_NETWORK == 1            \* no status: 15 s
BACKOFF_BASE == 4                \* 429: 60 s at level 0
BACKOFF_MAX == 240               \* 429: capped at 1 h
MODEL_RETRY == 4                 \* Date.now() + 60000
DEFAULT_MODEL_LOCK_MS == 20      \* 5 * 60 * 1000
DEFAULT_PRIORITY == 999          \* (priority || 999)
DEFAULT_STICKY_LIMIT == 3        \* settings.stickyRoundRobinLimit || 3

\* newBackoffLevel = -1 stands for undefined (the caller's ?? keeps the level)
NoFallback == [shouldFallback |-> FALSE, cooldownMs |-> 0, newBackoffLevel |-> -1]

RateLimitCooldown(backoffLevel) ==
    [shouldFallback |-> TRUE,
     cooldownMs |-> IF backoffLevel >= 6 THEN BACKOFF_MAX
                    ELSE Min2(BACKOFF_BASE * Pow2(backoffLevel), BACKOFF_MAX),
     newBackoffLevel |-> backoffLevel + 1]

checkFallbackError(status, errorText, backoffLevel) ==
    IF errorText = "rate limit" THEN RateLimitCooldown(backoffLevel)
    ELSE IF status = 429 THEN RateLimitCooldown(backoffLevel)
    ELSE IF status \in {401, 403}
        THEN [shouldFallback |-> TRUE, cooldownMs |-> COOLDOWN_UNAUTHORIZED, newBackoffLevel |-> -1]
    ELSE IF status = 402
        THEN [shouldFallback |-> TRUE, cooldownMs |-> COOLDOWN_PAYMENT, newBackoffLevel |-> -1]
    ELSE IF status >= 500
        THEN [shouldFallback |-> TRUE, cooldownMs |-> COOLDOWN_SERVER, newBackoffLevel |-> -1]
    ELSE IF status = 0
        THEN [shouldFallback |-> TRUE, cooldownMs |-> COOLDOWN_NETWORK, newBackoffLevel |-> -1]
    ELSE NoFallback

isAccountUnavailable(rateLimitedUntil) ==
    rateLimitedUntil # 0 /\ rateLimitedUntil > now

getUnavailableUntil(cooldownMs) == now + cooldownMs

\* the earliest rateLimitedUntil still in the future among `cs` (records); 0: none
getEarliestRateLimitedUntil(cs) ==
    LET future == {c.rateLimitedUntil : c \in {x \in cs : x.rateLimitedUntil # 0 /\ x.rateLimitedUntil > now}}
    IN  IF future = {} THEN 0 ELSE CHOOSE t \in future : \A u \in future : t <= u

\* ------------------------------------------------------------- local DB
\* getProviderConnections(filter): the ids of the provider's connections
\* (only the active ones with isActive: true), sorted by priority
getProviderConnections(db, onlyActive) ==
    LET rows == FilterSeq(ConnOrder, LAMBDA id : (~onlyActive) \/ db[id].isActive)
        byPriority(a, b) == db[a].priority - db[b].priority
    IN  StableSort(rows, byPriority)

\* updateProviderConnection(id, data): merge the fields of `data` into the row
updateProviderConnection(db, id, data) ==
    [db EXCEPT ![id] = [f \in DOMAIN db[id] |->
                            IF f \in DOMAIN data THEN data[f] ELSE db[id][f]]]

\* --------------------------------------------------------- model locks
MULTI_BUCKET_PROVIDERS == {"antigravity"}

isMultiBucketProvider(p) == p \in MULTI_BUCKET_PROVIDERS

\* mutant: a lock for any model of the connection counts
isModelLockedAnyModel(locks, connectionId, model) ==
    IF connectionId = None \/ model = None THEN FALSE
    ELSE \E m \in Models : locks[<<connectionId, m>>] # 0 /\ locks[<<connectionId, m>>] > now

\* isModelLocked's answer (its lazy clean-up is ModelLocksAfterRead)
isModelLocked(locks, connectionId, model) ==
    IF connectionId = None \/ model = None THEN FALSE
    ELSE IF locks[<<connectionId, model>>] = 0 THEN FALSE
    ELSE locks[<<connectionId, model>>] > now

\* modelLocks after isModelLocked was asked about every id of `ids` for `model`:
\* the expired entries it met are deleted
ModelLocksAfterRead(locks, ids, model) ==
    [k \in DOMAIN locks |->
        IF k[1] \in ids /\ k[2] = model /\ locks[k] # 0 /\ ~(locks[k] > now)
        THEN 0 ELSE locks[k]]

\* mutant: the expiry is the duration, not counted from Date.now()
lockModelRelative(locks, connectionId, model, durationMs) ==
    IF connectionId = None \/ model = None THEN locks
    ELSE [locks EXCEPT ![<<connectionId, model>>] = durationMs]

lockModel(locks, connectionId, model, durationMs) ==
    IF connectionId = None \/ model = None THEN locks
    ELSE [locks EXCEPT ![<<connectionId, model>>] = now + durationMs]

\* ------------------------------------------------------------ initial state
FreshConn(active, prio) ==
    [isActive |-> active, priority |-> prio, rateLimitedUntil |-> 0,
     testStatus |-> "active", lastError |-> None, errorCode |-> 0,
     backoffLevel |-> 0,
     lastUsedAt |-> 0, consecutiveUseCount |-> 0]

NoResult ==
    [kind |-> "none", connectionId |-> None, retryAfter |-> 0,
     lastError |-> None, lastErrorCode |-> 0,
     testStatus |-> "active", credLastError |-> None, rateLimitedUntil |-> 0]

NoCall ==
    [excludeConnectionId |-> None, model |-> None,
     currentMutex |-> 0, myPromise |-> 0,
     connections |-> <<>>, snap |-> <<>>, availableConnections |-> <<>>,
     update |-> <<>>, result |-> NoResult,
     status |-> 0, errorText |-> None, backoffLevel |-> 0]

NoObs == [now |-> 0, conns |-> <<>>, locks |-> <<>>, excl |-> None, model |-> None]

\* a connection of the cloud worker's machine document
CloudConn(active, prio) ==
    [isActive |-> active, priority |-> prio, rateLimitedUntil |-> 0,
     status |-> "active", lastError |-> None, errorCode |-> 0, backoffLevel |-> 0]

NoCredentials ==
    [kind |-> "null", id |-> None, status |-> "active", lastError |-> None,
     rateLimitedUntil |-> 0, retryAfter |-> 0, lastErrorCode |-> 0]

\* status 0: no response yet; retryAfter 0: no Retry-After header
NoResponse == [status |-> 0, retryAfter |-> 0, body |-> None]

NoSeen == [now |-> 0, providers |-> <<>>, excl |-> None]

NoChat ==
    [excludeConnectionId |-> None, lastError |-> None, lastStatus |-> 0,
     credentials |-> NoCredentials, status |-> 0, errorText |-> None,
     data |-> <<>>, seen |-> NoSeen, response |-> NoResponse,
     dispatched |-> <<>>]

\* no chat request reaches the cloud worker
CloudOff ==
    /\ machine = [id \in ConnIds |-> CloudConn(TRUE, 1)]
    /\ chatsLeft = 0
    /\ chatPc = [q \in ChatReqs |-> "idle"]
    /\ chat = [q \in ChatReqs |-> NoChat]

\* no stream is open
StreamOff ==
    /\ mode = "translate"
    /\ upstream = <<>>
    /\ buffer = <<>>
    /\ controller = <<>>
    /\ streamPc = "off"

\* no API key is being parsed
KeyOff ==
    /\ keyIds = [machineId |-> <<>>, keyId |-> <<>>]
    /\ apiKey = <<>>
    /\ tampered = FALSE
    /\ parsedKey = [valid |-> FALSE, hasMachineId |-> FALSE, machineId |-> <<>>,
                 keyId |-> <<>>, isNewFormat |-> FALSE]
    /\ keyPc = "off"

\* no request is at the worker's gate
NoGate ==
    [handler |-> "none", request |-> [authorization |-> <<>>, xApiKey |-> <<>>],
     machineIdOverride |-> <<>>, status |-> 0, authenticated |-> FALSE]

GateOff ==
    /\ apiKeys = {}
    /\ gate = NoGate

\* execute has not been called
NoExecution ==
    [pc |-> "off", urlIndex |-> 0, fetches |-> 0, lastStatus |-> 0,
     autoRetries |-> [u \in 1 .. 2 |-> 0], outcome |-> "none",
     aborted |-> FALSE, sent |-> 0, response |-> 0,
     marked |-> FALSE, reselected |-> FALSE]

ExecOff == execution = NoExecution

\* checkAndRefreshToken has not been entered
NoRefresh ==
    [pc |-> "off", stored |-> None, credentials |-> None, newCredentials |-> None,
     refreshed |-> None, attempted |-> FALSE, checkedAt |-> 0, savedAt |-> 0,
     sent |-> None]

RefreshOff == refresh = NoRefresh

\* createSSEStream has not been called
NoEngine ==
    [pc |-> "off", mode |-> None, targetFormat |-> None, sourceFormat |-> None,
     upstream |-> <<>>, unterminated |-> FALSE, buffer |-> <<>>,
     usage |-> None, stateUsage |-> None, detectedFormat |-> None,
     finishReason |-> FALSE, totalContentLength |-> 0,
     accumulatedContent |-> 0, accumulatedThinking |-> 0,
     estimates |-> <<>>, captured |-> FALSE,
     out |-> <<>>, used |-> <<>>, seen |-> <<>>, logged |-> None,
     completed |-> [called |-> FALSE, content |-> 0, thinking |-> 0, usage |-> None]]

EngineOff == engine = NoEngine

\* buildKiroPayload has not been called
NoKiro ==
    [pc |-> "off", messages |-> <<>>, history |-> <<>>, currentMessage |-> <<>>]

KiroOff == kiro = NoKiro

\* the request-details module is not in use
NoQueue ==
    [enabled |-> FALSE, batchSize |-> 0, writeBuffer |-> <<>>, flushTimer |-> FALSE,
     isFlushing |-> FALSE, itemsToSave |-> <<>>, awaiting |-> 0, handed |-> {},
     pc |-> <<>>]

QueueOff == queue = NoQueue

AuxOff == KiroOff /\ QueueOff

EdgeOff ==
    /\ KeyOff
    /\ GateOff
    /\ ExecOff
    /\ RefreshOff
    /\ EngineOff
    /\ AuxOff

\* the pool before any request: nothing selected, nothing failed, no lock
InitPool(e) ==
    /\ now = 1
    /\ modelLocks = [k \in ConnIds \X Models |-> 0]
    /\ selectionMutex = 0
    /\ resolved = {0}
    /\ callsLeft = e.calls
    /\ pc = [r \in Reqs |-> "idle"]
    /\ call = [r \in Reqs |-> NoCall]
    /\ obs = [r \in Reqs |-> NoObs]
    /\ selLog = <<>>
    /\ failLevel = [id \in ConnIds |-> -1]
    /\ env = e

\* two concurrent requests on a pool of two active connections
Init ==
    /\ conns = [id \in ConnIds |-> FreshConn(TRUE, IF id = "A" THEN 1 ELSE 2)]
    /\ settings \in [fallbackStrategy : Strategies]
    /\ provider \in Providers
    /\ InitPool([reqs |-> Reqs, chats |-> {}, calls |-> MaxCalls, log |-> FALSE,
                 excls |-> {None}, models |-> {None, "m1"},
                 failures |-> {<<429, "bad request">>, <<503, "bad request">>}])
    /\ CloudOff
    /\ StreamOff
    /\ EdgeOff

\* one request at a time, no failure, on two active connections; the log is kept
InitRR ==
    /\ conns \in {c \in [ConnIds -> {FreshConn(TRUE, p) : p \in 1 .. MaxPriority}] :
                    c["A"].priority <= c["B"].priority}
    /\ settings \in [fallbackStrategy : Strategies]
    /\ provider \in Providers
    /\ InitPool([reqs |-> {"r1"}, chats |-> {}, calls |-> MaxRRCalls, log |-> TRUE,
                 excls |-> {None}, models |-> {None, "m1"}, failures |-> {}])
    /\ CloudOff
    /\ StreamOff
    /\ EdgeOff

\* round-robin, one request at a time, with exclusions and failures; the log is kept
InitSwitch ==
    /\ conns = [id \in ConnIds |-> FreshConn(TRUE, IF id = "A" THEN 1 ELSE 2)]
    /\ settings = [fallbackStrategy |-> "round-robin"]
    /\ provider \in Providers
    /\ InitPool([reqs |-> {"r1"}, chats |-> {}, calls |-> MaxSeqCalls, log |-> TRUE,
                 excls |-> ConnIds \cup {None}, models |-> {None, "m1"},
                 failures |-> {<<429, "bad request">>, <<503, "bad request">>}])
    /\ CloudOff
    /\ StreamOff
    /\ EdgeOff

\* one request at a time on a pool of any shape, with any arguments and failures
InitSeq ==
    /\ conns \in {c \in [ConnIds -> {FreshConn(a, 1) : a \in BOOLEAN}
                                      \cup {FreshConn(a, 2) : a \in BOOLEAN}] :
                    /\ c["A"].priority = 1 /\ c["B"].priority = 2
                    /\ \E id \in ConnIds : c[id].isActive}
    /\ settings \in [fallbackStrategy : Strategies]
    /\ provider \in Providers
    /\ InitPool([reqs |-> {"r1"}, chats |-> {}, calls |-> MaxSeqCalls, log |-> FALSE,
                 excls |-> ConnIds \cup {None}, models |-> Models \cup {None},
                 failures |-> {<<400, "bad request">>, <<429, "bad request">>,
                               <<503, "bad request">>}])
    /\ CloudOff
    /\ StreamOff
    /\ EdgeOff

\* ------------------------------------------------- getProviderCredentials
\* lines 74-76: take the current tail of the promise chain and append a new one
Call(r) ==
    /\ pc[r] = "idle"
    /\ r \in env.reqs
    /\ callsLeft > 0
    /\ \E excl \in env.excls, model \in env.models :
        call' = [call EXCEPT ![r] =
                    [NoCall EXCEPT !.excludeConnectionId = excl,
                                   !.model = model,
                                   !.currentMutex = selectionMutex,
                                   !.myPromise = selectionMutex + 1]]
    /\ selectionMutex' = selectionMutex + 1
    /\ callsLeft' = callsLeft - 1
    /\ pc' = [pc EXCEPT ![r] = "waiting"]
    /\ obs' = [obs EXCEPT ![r] = NoObs]
    /\ UNCHANGED <<now, conns, modelLocks, settings, provider, resolved, selLog, failLevel, env, cloudVars, streamVars, edgeVars>>

\* mutant: the call does not wait for the earlier call's promise
MutexOpenNoAwait(r) == TRUE

\* line 79: await currentMutex
MutexOpen(r) == call[r].currentMutex \in resolved

\* mutant: the filter forgets the rate limit
AvailableIgnoringRateLimit(db, connections, excl, model) ==
    FilterSeq(connections, LAMBDA id :
        /\ ~(excl # None /\ id = excl)
        /\ ~(isMultiBucketProvider(provider) /\ model # None
                /\ isModelLocked(modelLocks, id, model)))

\* mutant: a connection stays out until its status is reset
AvailableUntilReset(db, connections, excl, model) ==
    FilterSeq(connections, LAMBDA id :
        /\ ~(excl # None /\ id = excl)
        /\ ~isAccountUnavailable(db[id].rateLimitedUntil)
        /\ db[id].testStatus # "unavailable"
        /\ ~(isMultiBucketProvider(provider) /\ model # None
                /\ isModelLocked(modelLocks, id, model)))

\* lines 108-113: the filter of the connections read
Available(db, connections, excl, model) ==
    FilterSeq(connections, LAMBDA id :
        /\ ~(excl # None /\ id = excl)
        /\ ~isAccountUnavailable(db[id].rateLimitedUntil)
        /\ ~(isMultiBucketProvider(provider) /\ model # None
                /\ isModelLocked(modelLocks, id, model)))

\* lines 125-151: what is returned when the filter leaves nothing
NoneAvailable(db, connections, model) ==
    LET earliest == getEarliestRateLimitedUntil({db[id] : id \in Range(connections)})
        rateLimitedConns == FilterSeq(connections, LAMBDA id :
              db[id].rateLimitedUntil # 0 /\ db[id].rateLimitedUntil > now)
        byUntil(a, b) == db[a].rateLimitedUntil - db[b].rateLimitedUntil
        earliestConn == StableSort(rateLimitedConns, byUntil)[1]
    IN  IF earliest # 0
        THEN [NoResult EXCEPT !.kind = "allRateLimited",
                              !.retryAfter = earliest,
                              !.lastError = db[earliestConn].lastError,
                              !.lastErrorCode = db[earliestConn].errorCode]
        ELSE IF isMultiBucketProvider(provider) /\ model # None
        THEN [NoResult EXCEPT !.kind = "allRateLimited",
                              !.retryAfter = now + MODEL_RETRY,
                              !.lastError = "All accounts rate limited for model"]
        ELSE [NoResult EXCEPT !.kind = "null"]

\* lines 87-104: no active connection at all
NoneActive(db) ==
    LET allConnections == getProviderConnections(db, FALSE)
        earliest == getEarliestRateLimitedUntil({db[id] : id \in Range(allConnections)})
    IN  IF Len(allConnections) > 0 /\ earliest # 0
        THEN [NoResult EXCEPT !.kind = "allRateLimited", !.retryAfter = earliest]
        ELSE [NoResult EXCEPT !.kind = "null"]

\* ghost: the log of the connections returned, kept in the runs that read it
Logged(entry) == IF env.log THEN Append(selLog, entry) ELSE selLog

\* lines 201-213: the credential view of the chosen connection, as it was read
CredentialView(db, id) ==
    [NoResult EXCEPT !.kind = "cred", !.connectionId = id,
                     !.testStatus = db[id].testStatus,
                     !.credLastError = db[id].lastError,
                     !.rateLimitedUntil = db[id].rateLimitedUntil]

\* lines 214-216: finally { resolveMutex() }
Release(r) == resolved' = resolved \cup {call[r].myPromise}

\* lines 79-151: wait for the mutex, read the active connections, filter them
SelectRead(r) ==
    /\ pc[r] = "waiting"
    /\ MutexOpen(r)
    /\ LET connections == getProviderConnections(conns, TRUE)
           available == Available(conns, connections, call[r].excludeConnectionId, call[r].model)
           asked == IF isMultiBucketProvider(provider) /\ call[r].model # None
                    THEN Range(connections) ELSE {}
       IN  /\ obs' = [obs EXCEPT ![r] = [now |-> now, conns |-> conns, locks |-> modelLocks,
                                          excl |-> call[r].excludeConnectionId,
                                          model |-> call[r].model]]
           /\ modelLocks' = ModelLocksAfterRead(modelLocks, asked, call[r].model)
           /\ IF Len(connections) = 0
              THEN /\ call' = [call EXCEPT ![r] = [NoCall EXCEPT !.result = NoneActive(conns)]]
                   /\ pc' = [pc EXCEPT ![r] = "idle"]
                   /\ Release(r)
              ELSE IF Len(available) = 0
              THEN /\ call' = [call EXCEPT ![r] = [NoCall EXCEPT !.result =
                                        NoneAvailable(conns, connections, call[r].model)]]
                   /\ pc' = [pc EXCEPT ![r] = "idle"]
                   /\ Release(r)
              ELSE /\ call' = [call EXCEPT ![r].connections = connections,
                                           ![r].snap = conns,
                                           ![r].availableConnections = available]
                   /\ pc' = [pc EXCEPT ![r] = "settings"]
                   /\ UNCHANGED resolved
    /\ UNCHANGED <<now, conns, settings, provider, selectionMutex, callsLeft, selLog, failLevel, env, cloudVars, streamVars, edgeVars>>

\* lines 161-166 / 181-186: the two comparators of round-robin
Prio(c) == IF c.priority = 0 THEN DEFAULT_PRIORITY ELSE c.priority

ByRecency(snap, a, b) ==
    IF snap[a].lastUsedAt = 0 /\ snap[b].lastUsedAt = 0 THEN Prio(snap[a]) - Prio(snap[b])
    ELSE IF snap[a].lastUsedAt = 0 THEN 1
    ELSE IF snap[b].lastUsedAt = 0 THEN -1
    ELSE snap[b].lastUsedAt - snap[a].lastUsedAt

ByOldest(snap, a, b) ==
    IF snap[a].lastUsedAt = 0 /\ snap[b].lastUsedAt = 0 THEN Prio(snap[a]) - Prio(snap[b])
    ELSE IF snap[a].lastUsedAt = 0 THEN -1
    ELSE IF snap[b].lastUsedAt = 0 THEN 1
    ELSE snap[a].lastUsedAt - snap[b].lastUsedAt

\* lines 157-195: the connection round-robin chooses and the update it issues
RoundRobin(snap, available) ==
    LET stickyLimit == DEFAULT_STICKY_LIMIT
        byRecency == StableSort(available, LAMBDA a, b : ByRecency(snap, a, b))
        current == byRecency[1]
        currentCount == snap[current].consecutiveUseCount
        sortedByOldest == StableSort(available, LAMBDA a, b : ByOldest(snap, a, b))
    IN  IF snap[current].lastUsedAt # 0 /\ currentCount < stickyLimit
        THEN [id |-> current,
              data |-> [lastUsedAt |-> now,
                        consecutiveUseCount |-> snap[current].consecutiveUseCount + 1]]
        ELSE [id |-> sortedByOldest[1],
              data |-> [lastUsedAt |-> now, consecutiveUseCount |-> 1]]

\* line 198: fill-first
FillFirst(available) == available[1]

\* mutant: the recency write is not awaited, the mutex is released at once
SelectChooseNoAwait(r) ==
    /\ pc[r] = "settings"
    /\ IF settings.fallbackStrategy = "round-robin"
       THEN /\ call' = [call EXCEPT ![r].update =
                            RoundRobin(call[r].snap, call[r].availableConnections)]
            /\ pc' = [pc EXCEPT ![r] = "write"]
            /\ Release(r)
            /\ UNCHANGED <<selLog>>
       ELSE LET id == FillFirst(call[r].availableConnections)
            IN  /\ call' = [call EXCEPT ![r] =
                            [NoCall EXCEPT !.model = call[r].model,
                                           !.result = CredentialView(call[r].snap, id)]]
                /\ selLog' = Logged([conn |-> id, excl |-> call[r].excludeConnectionId, at |-> now,
                                         count |-> 0])
                /\ pc' = [pc EXCEPT ![r] = "dispatch"]
                /\ Release(r)
    /\ UNCHANGED <<now, conns, modelLocks, settings, provider, selectionMutex, callsLeft, obs, failLevel, env, cloudVars, streamVars, edgeVars>>

\* lines 153-199: read the settings and choose; fill-first returns at once
SelectChoose(r) ==
    /\ pc[r] = "settings"
    /\ IF settings.fallbackStrategy = "round-robin"
       THEN /\ call' = [call EXCEPT ![r].update =
                            RoundRobin(call[r].snap, call[r].availableConnections)]
            /\ pc' = [pc EXCEPT ![r] = "write"]
            /\ UNCHANGED <<resolved, selLog>>
       ELSE LET id == FillFirst(call[r].availableConnections)
            IN  /\ call' = [call EXCEPT ![r] =
                            [NoCall EXCEPT !.model = call[r].model,
                                           !.result = CredentialView(call[r].snap, id)]]
                /\ selLog' = Logged([conn |-> id, excl |-> call[r].excludeConnectionId, at |-> now,
                                         count |-> 0])
                /\ pc' = [pc EXCEPT ![r] = "dispatch"]
                /\ Release(r)
    /\ UNCHANGED <<now, conns, modelLocks, settings, provider, selectionMutex, callsLeft, obs, failLevel, env, cloudVars, streamVars, edgeVars>>

\* lines 175-178 / 191-194, 201-216: the awaited write lands, the call returns
SelectWrite(r) ==
    /\ pc[r] = "write"
    /\ LET u == call[r].update
       IN  /\ conns' = updateProviderConnection(conns, u.id, u.data)
           /\ call' = [call EXCEPT ![r] =
                        [NoCall EXCEPT !.model = call[r].model,
                                       !.result = CredentialView(call[r].snap, u.id)]]
           /\ selLog' = Logged([conn |-> u.id, excl |-> call[r].excludeConnectionId,
                                    at |-> u.data.lastUsedAt,
                                    count |-> u.data.consecutiveUseCount])
    /\ pc' = [pc EXCEPT ![r] = "dispatch"]
    /\ Release(r)
    /\ UNCHANGED <<now, modelLocks, settings, provider, selectionMutex, callsLeft, obs, failLevel, env, cloudVars, streamVars, edgeVars>>

\* mutant: no finally block, a thrown error leaves the promise pending
FinallySkipped(r) == UNCHANGED resolved

\* lines 214-216: the finally block of the try that holds the whole body
Finally(r) == Release(r)

\* lines 81-194: a storage call made inside the try (getProviderConnections,
\* getSettings, updateProviderConnection) throws; the call rejects
StorageThrows(r) ==
    /\ \/ pc[r] = "waiting" /\ MutexOpen(r)
       \/ pc[r] \in {"settings", "write"}
    /\ call' = [call EXCEPT ![r] =
                    [NoCall EXCEPT !.result = [NoResult EXCEPT !.kind = "thrown"]]]
    /\ pc' = [pc EXCEPT ![r] = "idle"]
    /\ Finally(r)
    /\ UNCHANGED <<now, conns, modelLocks, settings, provider, selectionMutex, callsLeft,
                   obs, selLog, failLevel, env, cloudVars, streamVars, edgeVars>>

\* ------------------------------------------------- markAccountUnavailable
\* lines 230-234: a dispatch failed with (status, errorText); read the level
MarkRead(r) ==
    /\ pc[r] = "dispatch"
    /\ \E f \in env.failures :
      LET status == f[1]
          errorText == f[2]
      IN call' = [call EXCEPT ![r].status = status,
                             ![r].errorText = errorText,
                             ![r].backoffLevel = conns[call[r].result.connectionId].backoffLevel]
    /\ pc' = [pc EXCEPT ![r] = "marking"]
    /\ UNCHANGED <<now, conns, modelLocks, settings, provider, selectionMutex,
                   resolved, callsLeft, obs, selLog, failLevel, env, cloudVars, streamVars, edgeVars>>

\* mutant: the failure write keeps the level it read
FailureUpdateKeepsLevel(status, errorText, backoffLevel, fb) ==
    [rateLimitedUntil |-> getUnavailableUntil(fb.cooldownMs),
     testStatus |-> "unavailable",
     lastError |-> errorText,
     errorCode |-> status,
     backoffLevel |-> backoffLevel]

\* lines 248-255: the fields written for a failure
FailureUpdate(status, errorText, backoffLevel, fb) ==
    [rateLimitedUntil |-> getUnavailableUntil(fb.cooldownMs),
     testStatus |-> "unavailable",
     lastError |-> errorText,
     errorCode |-> status,
     backoffLevel |-> IF fb.newBackoffLevel # -1 THEN fb.newBackoffLevel ELSE backoffLevel]

\* mutant: the failure is written whatever the policy answered
MarkWriteAnyStatus(r) ==
    /\ pc[r] = "marking"
    /\ LET c == call[r]
           id == c.result.connectionId
           fb == checkFallbackError(c.status, c.errorText, c.backoffLevel)
       IN  /\ conns' = updateProviderConnection(conns, id,
                                FailureUpdate(c.status, c.errorText, c.backoffLevel, fb))
           /\ UNCHANGED modelLocks
    /\ failLevel' = failLevel
    /\ pc' = [pc EXCEPT ![r] = "idle"]
    /\ call' = [call EXCEPT ![r] = NoCall]
    /\ obs' = [obs EXCEPT ![r] = NoObs]
    /\ UNCHANGED <<now, settings, provider, selectionMutex, resolved, callsLeft, selLog, env, cloudVars, streamVars, edgeVars>>

\* lines 236-261: classify, then lock the model or write the failure
MarkWrite(r) ==
    /\ pc[r] = "marking"
    /\ LET c == call[r]
           id == c.result.connectionId
           fb == checkFallbackError(c.status, c.errorText, c.backoffLevel)
       IN  IF ~fb.shouldFallback
           THEN UNCHANGED <<conns, modelLocks>>
           ELSE IF isMultiBucketProvider(provider) /\ c.status = 429 /\ c.model # None
           THEN /\ modelLocks' = lockModel(modelLocks, id, c.model,
                                    IF fb.cooldownMs > 0 THEN fb.cooldownMs
                                    ELSE DEFAULT_MODEL_LOCK_MS)
                /\ UNCHANGED conns
           ELSE /\ conns' = updateProviderConnection(conns, id,
                                FailureUpdate(c.status, c.errorText, c.backoffLevel, fb))
                /\ UNCHANGED modelLocks
    /\ failLevel' = IF checkFallbackError(call[r].status, call[r].errorText,
                                          call[r].backoffLevel).shouldFallback
                    THEN [failLevel EXCEPT ![call[r].result.connectionId] =
                              conns'[call[r].result.connectionId].backoffLevel]
                    ELSE failLevel
    /\ pc' = [pc EXCEPT ![r] = "idle"]
    /\ call' = [call EXCEPT ![r] = NoCall]
    /\ obs' = [obs EXCEPT ![r] = NoObs]
    /\ UNCHANGED <<now, settings, provider, selectionMutex, resolved, callsLeft, selLog, env, cloudVars, streamVars, edgeVars>>

\* ------------------------------------------------------ clearAccountError
\* lines 270-272
hasError(currentConnection) ==
    \/ currentConnection.testStatus = "unavailable"
    \/ currentConnection.credLastError # None
    \/ currentConnection.rateLimitedUntil # 0

\* lines 276-282
ClearedFields ==
    [testStatus |-> "active", lastError |-> None,
     rateLimitedUntil |-> 0, backoffLevel |-> 0]

\* lines 268-284: the request succeeded; clear the error the credentials carried
ClearAccountError(r) ==
    /\ pc[r] = "dispatch"
    /\ IF hasError(call[r].result)
       THEN conns' = updateProviderConnection(conns, call[r].result.connectionId, ClearedFields)
       ELSE UNCHANGED conns
    /\ pc' = [pc EXCEPT ![r] = "idle"]
    /\ call' = [call EXCEPT ![r] = NoCall]
    /\ obs' = [obs EXCEPT ![r] = NoObs]
    /\ failLevel' = [failLevel EXCEPT ![call[r].result.connectionId] = -1]
    /\ UNCHANGED <<now, modelLocks, settings, provider, selectionMutex, resolved,
                   callsLeft, selLog, env, cloudVars, streamVars, edgeVars>>

\* ============================================================ cloud worker
\* Every read of the machine document (getMachineData) and every save of it
\* (saveMachineData) is one step: a save writes back the whole document the
\* handler read earlier.  Credentials carry no expiresAt, so
\* checkAndRefreshToken returns them unchanged.

\* mutant: the sort compares the stored priorities, without the default
CloudPriorityPlain(conn) == conn.priority

\* line 538: (priority || 999)
CloudPriority(conn) == IF conn.priority = 0 THEN DEFAULT_PRIORITY ELSE conn.priority

\* mutant: the filter forgets excludeConnectionId
CloudEligibleNoExclude(data, excludeConnectionId) ==
    FilterSeq(ConnOrder, LAMBDA id :
        /\ data[id].isActive
        /\ ~isAccountUnavailable(data[id].rateLimitedUntil))

\* lines 531-537: the entries that pass the filter, in the document's order
CloudEligible(data, excludeConnectionId) ==
    FilterSeq(ConnOrder, LAMBDA id :
        /\ data[id].isActive
        /\ ~(excludeConnectionId # None /\ id = excludeConnectionId)
        /\ ~isAccountUnavailable(data[id].rateLimitedUntil))

\* lines 522-582
CloudGetProviderCredentials(data, excludeConnectionId) ==
    LET providerConnections ==
            StableSort(CloudEligible(data, excludeConnectionId),
                       LAMBDA a, b : CloudPriority(data[a]) - CloudPriority(data[b]))
        allConnections == {data[id] : id \in {i \in ConnIds : data[i].isActive}}
        earliest == getEarliestRateLimitedUntil(allConnections)
        rateLimitedConns ==
            FilterSeq(ConnOrder, LAMBDA id :
                /\ data[id].isActive
                /\ data[id].rateLimitedUntil # 0
                /\ data[id].rateLimitedUntil > now)
        earliestConn ==
            StableSort(rateLimitedConns,
                       LAMBDA a, b : data[a].rateLimitedUntil - data[b].rateLimitedUntil)[1]
    IN  IF Len(providerConnections) = 0
        THEN IF earliest # 0
             THEN [NoCredentials EXCEPT !.kind = "allRateLimited",
                                        !.retryAfter = earliest,
                                        !.lastError = data[earliestConn].lastError,
                                        !.lastErrorCode = data[earliestConn].errorCode]
             ELSE NoCredentials
        ELSE LET connectionId == providerConnections[1]
             IN  [NoCredentials EXCEPT !.kind = "cred",
                                       !.id = connectionId,
                                       !.status = data[connectionId].status,
                                       !.lastError = data[connectionId].lastError,
                                       !.rateLimitedUntil = data[connectionId].rateLimitedUntil]

\* lines 584-612: the document markAccountUnavailable builds from the one it read
CloudMarked(data, connectionId, status, errorText) ==
    LET backoffLevel == data[connectionId].backoffLevel
        fb == checkFallbackError(status, errorText, backoffLevel)
    IN  [data EXCEPT ![connectionId] =
            [@ EXCEPT !.rateLimitedUntil = getUnavailableUntil(fb.cooldownMs),
                      !.status = "unavailable",
                      !.lastError = errorText,
                      !.errorCode = status,
                      !.backoffLevel = IF fb.newBackoffLevel = -1 THEN backoffLevel
                                       ELSE fb.newBackoffLevel]]

\* lines 627-630
CloudHasError(currentCredentials) ==
    \/ currentCredentials.status = "unavailable"
    \/ currentCredentials.lastError # None
    \/ currentCredentials.rateLimitedUntil # 0

\* lines 634-642: the document clearAccountError builds from the one it read
CloudCleared(data, connectionId) ==
    [data EXCEPT ![connectionId] =
        [@ EXCEPT !.status = "active", !.lastError = None,
                  !.rateLimitedUntil = 0, !.backoffLevel = 0]]

\* a || b || c on numbers
FirstNonZero(a, b, c) == IF a # 0 THEN a ELSE IF b # 0 THEN b ELSE c

\* lines 404-437: the response when no credentials were returned (one clock
\* unit is 15 s; Retry-After is in seconds)
NoCredentialsResponse(q, credentials) ==
    IF credentials.kind = "allRateLimited"
    THEN LET retryAfterSec == 15 * (credentials.retryAfter - now)
         IN  [status |-> FirstNonZero(chat[q].lastStatus, credentials.lastErrorCode, 503),
              retryAfter |-> IF retryAfterSec > 1 THEN retryAfterSec ELSE 1,
              body |-> IF chat[q].lastError # None THEN chat[q].lastError
                       ELSE IF credentials.lastError # None THEN credentials.lastError
                       ELSE "Unavailable"]
    ELSE IF chat[q].excludeConnectionId = None
    THEN [status |-> 400, retryAfter |-> 0, body |-> "No credentials"]
    ELSE [status |-> FirstNonZero(chat[q].lastStatus, 503, 503), retryAfter |-> 0,
          body |-> IF chat[q].lastError # None THEN chat[q].lastError
                   ELSE "All accounts unavailable"]

\* the handler returns `response`
Respond(q, response) ==
    /\ chat' = [chat EXCEPT ![q] = [NoChat EXCEPT !.response = response,
                                                  !.dispatched = chat[q].dispatched]]
    /\ chatPc' = [chatPc EXCEPT ![q] = "idle"]

\* lines 385-395: a chat request enters handleSingleModelChat
ChatStart(q) ==
    /\ chatPc[q] = "idle"
    /\ q \in env.chats
    /\ chatsLeft > 0
    /\ chatsLeft' = chatsLeft - 1
    /\ chat' = [chat EXCEPT ![q] = NoChat]
    /\ chatPc' = [chatPc EXCEPT ![q] = "select"]
    /\ UNCHANGED <<now, env, machine, poolVars, streamVars, edgeVars>>

\* lines 397-439: select, or answer when nothing was selected
ChatSelect(q) ==
    /\ chatPc[q] = "select"
    /\ LET credentials == CloudGetProviderCredentials(machine, chat[q].excludeConnectionId)
       IN  IF credentials.kind = "cred"
           THEN /\ chat' = [chat EXCEPT
                        ![q].credentials = credentials,
                        ![q].dispatched = Append(@, credentials.id),
                        ![q].seen = [now |-> now, providers |-> machine,
                                     excl |-> chat[q].excludeConnectionId]]
                /\ chatPc' = [chatPc EXCEPT ![q] = "dispatch"]
           ELSE Respond(q, NoCredentialsResponse(q, credentials))
    /\ UNCHANGED <<now, env, machine, chatsLeft, poolVars, streamVars, edgeVars>>

\* lines 451-464, 620-633: the dispatch succeeded; clearAccountError looks at
\* the credentials selected earlier and, if they carry an error, reads the document
ChatSuccess(q) ==
    /\ chatPc[q] = "dispatch"
    /\ IF CloudHasError(chat[q].credentials)
       THEN /\ chat' = [chat EXCEPT ![q].data = CloudCleared(machine, chat[q].credentials.id)]
            /\ chatPc' = [chatPc EXCEPT ![q] = "clearing"]
       ELSE Respond(q, [status |-> 200, retryAfter |-> 0, body |-> None])
    /\ UNCHANGED <<now, env, machine, chatsLeft, poolVars, streamVars, edgeVars>>

\* lines 644-645, 464: clearAccountError saves, the response is returned
ChatClearSave(q) ==
    /\ chatPc[q] = "clearing"
    /\ machine' = chat[q].data
    /\ Respond(q, [status |-> 200, retryAfter |-> 0, body |-> None])
    /\ UNCHANGED <<now, env, chatsLeft, poolVars, streamVars, edgeVars>>

\* lines 466-486, 584-612: the dispatch failed; on a fallback error
\* markAccountUnavailable reads the document, else the response is returned
ChatFail(q) ==
    /\ chatPc[q] = "dispatch"
    /\ \E f \in env.failures :
        IF checkFallbackError(f[1], f[2], 0).shouldFallback
        THEN /\ chat' = [chat EXCEPT
                    ![q].status = f[1],
                    ![q].errorText = f[2],
                    ![q].data = CloudMarked(machine, chat[q].credentials.id, f[1], f[2])]
             /\ chatPc' = [chatPc EXCEPT ![q] = "marking"]
        ELSE Respond(q, [status |-> f[1], retryAfter |-> 0, body |-> f[2]])
    /\ UNCHANGED <<now, env, machine, chatsLeft, poolVars, streamVars, edgeVars>>

\* lines 614, 479-482: markAccountUnavailable saves, the loop continues
ChatMarkSave(q) ==
    /\ chatPc[q] = "marking"
    /\ machine' = chat[q].data
    /\ chat' = [chat EXCEPT ![q] =
                    [NoChat EXCEPT !.excludeConnectionId = chat[q].credentials.id,
                                   !.lastError = chat[q].errorText,
                                   !.lastStatus = chat[q].status,
                                   !.dispatched = chat[q].dispatched]]
    /\ chatPc' = [chatPc EXCEPT ![q] = "select"]
    /\ UNCHANGED <<now, env, chatsLeft, poolVars, streamVars, edgeVars>>

\* ============================================================= SSE stream
\* buffer.split("\n"): the lines of `text`, `cur` being the line read so far
RECURSIVE Split(_, _)
Split(text, cur) ==
    IF text = <<>> THEN <<cur>>
    ELSE IF Head(text) = "n" THEN <<cur>> \o Split(Tail(text), <<>>)
    ELSE Split(Tail(text), Append(cur, Head(text)))

\* the outputs enqueued one after the other
RECURSIVE Concat(_)
Concat(outputs) ==
    IF outputs = <<>> THEN <<>> ELSE Head(outputs) \o Concat(Tail(outputs))

\* "data: [DONE]\n\n"
doneOutput == <<"X", "n", "n">>

\* streamHelpers: null for a line that is no data line, done for [DONE]
parseSSELine(line) ==
    IF line = <<"X">> THEN "done"
    ELSE IF line = <<"J">> THEN "J"
    ELSE IF line = <<"E">> THEN "E"
    ELSE "null"

hasValuableContent(item) == item = "J"

formatSSE(item) == <<item, "n", "n">>

\* translator: one item per parsed chunk, nothing left to flush
translateResponse(parsed) == IF parsed = "null" THEN <<>> ELSE <<parsed>>

\* lines 136-216: passthrough forwards every line but a chunk without content
PassthroughLine(line) ==
    IF parseSSELine(line) = "E" THEN <<>> ELSE line \o <<"n">>

\* lines 219-310: translate mode
TranslateLine(line) ==
    IF line = <<>> THEN <<>>
    ELSE LET parsed == parseSSELine(line)
         IN  IF parsed = "null" THEN <<>>
             ELSE IF parsed = "done" THEN doneOutput
             ELSE Concat([i \in 1 .. Len(translateResponse(parsed)) |->
                            IF hasValuableContent(translateResponse(parsed)[i])
                            THEN formatSSE(translateResponse(parsed)[i]) ELSE <<>>])

\* lines 121-312: transform(chunk) for any chunk the upstream text starts with
Transform ==
    /\ streamPc = "open"
    /\ upstream # <<>>
    /\ \E k \in 1 .. Len(upstream) :
        LET lines == Split(buffer \o SubSeq(upstream, 1, k), <<>>)
            complete == SubSeq(lines, 1, Len(lines) - 1)
        IN  /\ buffer' = lines[Len(lines)]
            /\ controller' = controller \o
                    Concat([i \in 1 .. Len(complete) |->
                                IF mode = "passthrough" THEN PassthroughLine(complete[i])
                                ELSE TranslateLine(complete[i])])
            /\ upstream' = SubSeq(upstream, k + 1, Len(upstream))
    /\ UNCHANGED <<now, env, mode, streamPc, poolVars, cloudVars, edgeVars>>

\* lines 314-422: flush
Flush ==
    /\ streamPc = "open"
    /\ upstream = <<>>
    /\ controller' = controller \o
        (IF mode = "passthrough"
         THEN buffer \o doneOutput
         ELSE LET parsed == parseSSELine(buffer)
              IN  (IF buffer # <<>> /\ parsed \notin {"null", "done"}
                   THEN Concat([i \in 1 .. Len(translateResponse(parsed)) |->
                                    formatSSE(translateResponse(parsed)[i])])
                   ELSE <<>>)
                  \o Concat([i \in 1 .. Len(translateResponse("null")) |->
                                formatSSE(translateResponse("null")[i])])
                  \o doneOutput)
    /\ streamPc' = "flushed"
    /\ UNCHANGED <<now, env, mode, upstream, buffer, poolVars, cloudVars, edgeVars>>

\* ------------------------------------------------------------------ API keys
\* texts are sequences of characters
IdChars == {"a", "b", "-"}
TamperChars == {"a", "b", "-", "0", "x"}
Ids == UNION {[1 .. n -> IdChars] : n \in 0 .. MaxIdLen}
CRC_LENGTH == 8

\* String.prototype.split(sep) for a one-character separator
RECURSIVE SplitOn(_, _, _)
SplitOn(text, sep, cur) ==
    IF text = <<>> THEN <<cur>>
    ELSE IF Head(text) = sep THEN <<cur>> \o SplitOn(Tail(text), sep, <<>>)
    ELSE SplitOn(Tail(text), sep, Append(cur, Head(text)))

\* the hex digit a character of the data contributes to the modelled MAC
HexOf(c) ==
    CASE c = "a" -> "a"
      [] c = "b" -> "b"
      [] c = "-" -> "d"
      [] c = "0" -> "c"
      [] OTHER -> "e"

\* lines 13-33: the first 8 hex characters of HMAC-SHA256(secret, machineId +
\* keyId). The MAC is idealised: it is a function of the concatenated data
\* whose 8-character prefixes differ for different data.
generateCrc(machineId, keyId) ==
    LET data == machineId \o keyId
    IN  [i \in 1 .. CRC_LENGTH |-> IF i <= Len(data) THEN HexOf(data[i]) ELSE "0"]

\* sk-{machineId}-{keyId}-{crc8}
formatApiKey(machineId, keyId) ==
    <<"s", "k", "-">> \o machineId \o <<"-">> \o keyId \o <<"-">>
        \o generateCrc(machineId, keyId)

\* parseApiKey's null
NoParse ==
    [valid |-> FALSE, hasMachineId |-> FALSE, machineId |-> <<>>,
     keyId |-> <<>>, isNewFormat |-> FALSE]

startsWithSk(text) ==
    Len(text) >= 3 /\ SubSeq(text, 1, 3) = <<"s", "k", "-">>

\* mutant: the destructuring takes the two ids in the wrong order
parseApiKeySwapped(key) ==
    IF key = <<>> \/ ~startsWithSk(key) THEN NoParse
    ELSE LET parts == SplitOn(key, "-", <<>>)
         IN  IF Len(parts) = 4
             THEN IF parts[4] # generateCrc(parts[2], parts[3]) THEN NoParse
                  ELSE [valid |-> TRUE, hasMachineId |-> TRUE, machineId |-> parts[3],
                        keyId |-> parts[2], isNewFormat |-> TRUE]
             ELSE IF Len(parts) = 2
             THEN [valid |-> TRUE, hasMachineId |-> FALSE, machineId |-> <<>>,
                   keyId |-> parts[2], isNewFormat |-> FALSE]
             ELSE NoParse

\* mutant: the CRC is not verified
parseApiKeyNoCrc(key) ==
    IF key = <<>> \/ ~startsWithSk(key) THEN NoParse
    ELSE LET parts == SplitOn(key, "-", <<>>)
         IN  IF Len(parts) = 4
             THEN [valid |-> TRUE, hasMachineId |-> TRUE, machineId |-> parts[2],
                   keyId |-> parts[3], isNewFormat |-> TRUE]
             ELSE IF Len(parts) = 2
             THEN [valid |-> TRUE, hasMachineId |-> FALSE, machineId |-> <<>>,
                   keyId |-> parts[2], isNewFormat |-> FALSE]
             ELSE NoParse

\* lines 40-62
parseApiKey(key) ==
    IF key = <<>> \/ ~startsWithSk(key) THEN NoParse
    ELSE LET parts == SplitOn(key, "-", <<>>)
         IN  IF Len(parts) = 4
             THEN IF parts[4] # generateCrc(parts[2], parts[3]) THEN NoParse
                  ELSE [valid |-> TRUE, hasMachineId |-> TRUE, machineId |-> parts[2],
                        keyId |-> parts[3], isNewFormat |-> TRUE]
             ELSE IF Len(parts) = 2
             THEN [valid |-> TRUE, hasMachineId |-> FALSE, machineId |-> <<>>,
                   keyId |-> parts[2], isNewFormat |-> FALSE]
             ELSE NoParse

\* ------------------------------------------------- the cloud worker's gate
\* the machine that has data in the store, and one that has none
KnownMachine == <<"a">>
MachineIds == {KnownMachine, <<"b">>}

\* the keys a request may present: two new-format keys of the known machine,
\* one of the other machine, and a legacy key
GateKeys ==
    {formatApiKey(KnownMachine, <<"a">>), formatApiKey(KnownMachine, <<"b">>),
     formatApiKey(<<"b">>, <<"a">>), <<"s", "k", "-", "b">>}

\* lines 70-87 of apiKey.js: the Authorization bearer value, else x-api-key,
\* else null (here the empty text)
extractBearerToken(request) ==
    IF request.authorization # <<>> THEN request.authorization ELSE request.xApiKey

\* getMachineData(machineId, env)
getMachineData(machineId) ==
    IF machineId = KnownMachine THEN [found |-> TRUE, apiKeys |-> apiKeys]
    ELSE [found |-> FALSE, apiKeys |-> {}]

\* lines 514-520 of the worker
validateApiKey(request, machineId) ==
    LET key == extractBearerToken(request)
        data == getMachineData(machineId)
    IN  IF key = <<>> THEN FALSE
        ELSE data.found /\ \E k \in data.apiKeys : k.key = key

\* lines 321-349: the status handleChat answers before it reads the body;
\* 0 when the request goes on to the model and the credential selection
ChatGateStatus(request, machineIdOverride) ==
    LET key == extractBearerToken(request)
        keyParts == parseApiKey(key)
        early == IF machineIdOverride # <<>> THEN 0
                 ELSE IF key = <<>> THEN 401
                 ELSE IF ~keyParts.valid THEN 401
                 ELSE IF ~keyParts.isNewFormat \/ keyParts.machineId = <<>> THEN 400
                 ELSE 0
        machineId == IF machineIdOverride # <<>> THEN machineIdOverride
                     ELSE keyParts.machineId
    IN  IF early # 0 THEN early
        ELSE IF ~validateApiKey(request, machineId) THEN 401
        ELSE 0

\* models.js lines 13-46: the status handleModels answers before it lists
ModelsGateStatus(request, machineIdOverride) ==
    LET key == extractBearerToken(request)
        keyParts == parseApiKey(key)
        early == IF machineIdOverride # <<>> THEN 0
                 ELSE IF key = <<>> THEN 401
                 ELSE IF ~keyParts.valid THEN 401
                 ELSE IF ~keyParts.isNewFormat \/ keyParts.machineId = <<>> THEN 400
                 ELSE 0
        machineId == IF machineIdOverride # <<>> THEN machineIdOverride
                     ELSE keyParts.machineId
        data == getMachineData(machineId)
    IN  IF early # 0 THEN early
        ELSE IF ~data.found THEN 404
        ELSE IF ~(\E k \in data.apiKeys : k.key = key) THEN 401
        ELSE 0

handleChat(request, machineIdOverride) ==
    /\ gate' = [handler |-> "chat", request |-> request,
                machineIdOverride |-> machineIdOverride,
                status |-> ChatGateStatus(request, machineIdOverride),
                authenticated |-> ChatGateStatus(request, machineIdOverride) = 0]
    /\ UNCHANGED <<now, env, apiKeys, keyVars, execution, refresh, engine, auxVars, poolVars, cloudVars, streamVars>>

handleModels(request, machineIdOverride) ==
    /\ gate' = [handler |-> "models", request |-> request,
                machineIdOverride |-> machineIdOverride,
                status |-> IF ModelsGateStatus(request, machineIdOverride) = 0 THEN 200
                           ELSE ModelsGateStatus(request, machineIdOverride),
                authenticated |-> ModelsGateStatus(request, machineIdOverride) = 0]
    /\ UNCHANGED <<now, env, apiKeys, keyVars, execution, refresh, engine, auxVars, poolVars, cloudVars, streamVars>>

\* part_001 lines 275-283: the dashboard pauses or resumes a key
handleToggleKey(key, isActive) ==
    /\ \E k \in apiKeys : k.key = key /\ k.isActive # isActive
    /\ apiKeys' = {IF k.key = key THEN [k EXCEPT !.isActive = isActive] ELSE k : k \in apiKeys}
    /\ UNCHANGED <<now, env, gate, keyVars, execution, refresh, engine, auxVars, poolVars, cloudVars, streamVars>>

\* ------------------------------------------- AntigravityExecutor.execute
MAX_RETRY_AFTER_MS == 5000
MAX_AUTO_RETRIES == 2
FallbackCount == 2

\* what one fetch may come back with: a status and what parseRetryHeaders
\* makes of its headers (0: null), or a thrown network error (status 0)
FetchStatuses == {0, 200, 429, 500, 503}
RetryMs == {0, 3000, 60000}

\* base.js: a retryable status while another URL is left
shouldRetry(status, urlIndex) ==
    status \in {429, 500, 503} /\ urlIndex + 1 < FallbackCount

\* lines 128-180: `continue` runs the loop's urlIndex++ and its test; past the
\* last URL the final throw of line 182 is reached
Continue(e, urlIndex) ==
    IF urlIndex + 1 < FallbackCount
    THEN [e EXCEPT !.urlIndex = urlIndex + 1]
    ELSE [e EXCEPT !.urlIndex = urlIndex + 1, !.pc = "done", !.outcome = "thrown"]

\* lines 128-180: one iteration of the loop over the URLs, on the answer
\* (status, retryMs) of its fetch. retryAttempts is declared in the loop body
\* (line 132): it is 0 at every fetch.
Iterate(e, status, retryMs) ==
    LET urlIndex == e.urlIndex
        retryAttempts == 0
        fetched == [e EXCEPT !.fetches = e.fetches + 1]
        noted == [fetched EXCEPT !.lastStatus = status]
    IN  IF status = 0
        THEN IF urlIndex + 1 < FallbackCount THEN Continue(fetched, urlIndex)
             ELSE [fetched EXCEPT !.pc = "done", !.outcome = "thrown"]
        ELSE IF status \in {429, 503} /\ retryMs # 0 /\ retryMs <= MAX_RETRY_AFTER_MS
        THEN Continue(fetched, urlIndex - 1)
        ELSE IF status = 429 /\ retryMs = 0 /\ retryAttempts < MAX_AUTO_RETRIES
        THEN Continue([fetched EXCEPT !.autoRetries[urlIndex + 1] = @ + 1], urlIndex - 1)
        ELSE IF status \in {429, 503} /\ urlIndex + 1 < FallbackCount
        THEN Continue(noted, urlIndex)
        ELSE IF shouldRetry(status, urlIndex)
        THEN Continue(noted, urlIndex)
        ELSE [(IF status \in {429, 503} THEN noted ELSE fetched)
                    EXCEPT !.pc = "done", !.outcome = "returned"]

\* line 124: execute is called
Execute ==
    /\ execution.pc = "off"
    /\ execution' = [NoExecution EXCEPT !.pc = "fetch"]
    /\ UNCHANGED <<now, env, keyVars, gateVars, refresh, engine, auxVars, poolVars, cloudVars, streamVars>>

signalAbortedNever(e) == FALSE

\* line 141: every fetch is given the signal; once it has fired, a fetch in
\* flight and any later fetch reject with an AbortError, and a later fetch
\* sends nothing
signalAborted(e) == e.aborted

\* lines 135-180: the fetch of the current URL is answered by the upstream
Fetch(status, retryMs) ==
    /\ execution.pc = "fetch"
    /\ execution.fetches < MaxFetches
    /\ ~signalAborted(execution)
    /\ execution' = [Iterate(execution, status, retryMs) EXCEPT
                        !.sent = @ + 1, !.response = status]
    /\ UNCHANGED <<now, env, keyVars, gateVars, refresh, engine, auxVars, poolVars, cloudVars, streamVars>>

\* the counters of an execution, kept up to MaxFetches ("many" beyond it)
Saturated(e) ==
    [e EXCEPT !.fetches = Min2(e.fetches, MaxFetches),
              !.sent = Min2(e.sent, MaxFetches),
              !.autoRetries = [u \in DOMAIN e.autoRetries |->
                                  Min2(e.autoRetries[u], MaxFetches)]]

\* lines 135-180: the fetch of the current URL is answered, however many
\* fetches the call has made
FetchAgain(status, retryMs) ==
    /\ execution.pc = "fetch"
    /\ ~signalAborted(execution)
    /\ execution' = Saturated([Iterate(execution, status, retryMs) EXCEPT
                                  !.sent = @ + 1, !.response = status])
    /\ UNCHANGED <<now, env, keyVars, gateVars, refresh, engine, auxVars, poolVars, cloudVars, streamVars>>

\* the client disconnects while execute runs: the signal fires
SignalAbort ==
    /\ execution.pc = "fetch"
    /\ ~execution.aborted
    /\ execution' = [execution EXCEPT !.aborted = TRUE]
    /\ UNCHANGED <<now, env, keyVars, gateVars, refresh, engine, auxVars, poolVars, cloudVars, streamVars>>

\* lines 175-181: the fetch rejects with the AbortError, which the catch
\* treats as any other error
FetchRejected ==
    /\ execution.pc = "fetch"
    /\ signalAborted(execution)
    /\ execution' = Iterate(execution, 0, 0)
    /\ UNCHANGED <<now, env, keyVars, gateVars, refresh, engine, auxVars, poolVars, cloudVars, streamVars>>

\* chatCore: the status of the result handleChatCore returns: 499 when the
\* client closed the request, 502 when the executor threw, else the
\* response's
chatCoreStatus(e) ==
    IF e.aborted THEN 499
    ELSE IF e.outcome = "thrown" THEN 502
    ELSE e.response

\* part_000 464-487: the result is classified; a fallback marks the
\* connection and loops to select another credential
ChatResult ==
    /\ execution.pc = "done"
    /\ LET status == chatCoreStatus(execution)
           fallback == /\ status # 200
                       /\ checkFallbackError(status, None, 0).shouldFallback
       IN  execution' = [execution EXCEPT !.pc = "closed",
                                          !.marked = fallback,
                                          !.reselected = fallback]
    /\ UNCHANGED <<now, env, keyVars, gateVars, refresh, engine, auxVars, poolVars, cloudVars, streamVars>>

\* ------------------------------------------------- checkAndRefreshToken
TOKEN_EXPIRY_BUFFER_MS == 20     \* 5 * 60 * 1000

\* expiresAt of a stored connection (0: none) and expires_in of a token
\* response (0: none, else one hour)
ExpiryTimes == {0, 2, 21, 22, 23, 30}
ExpiresIn == {0, 240}

StoredConnections ==
    [accessToken : {"t0"}, refreshToken : {None, "r0"}, expiresAt : ExpiryTimes,
     testStatus : {"active"}]

\* refreshTokenByProvider's result: null (isNull), or the executor's object
NullCredentials ==
    [isNull |-> TRUE, accessToken |-> None, refreshToken |-> None, expiresIn |-> 0]

\* refreshCredentials: null without a refresh token, on a response that is
\* not ok and on a thrown error; else the token response's fields, the
\* refresh token being the new one or the current one
RefreshResults(credentials) ==
    IF credentials.refreshToken = None
    THEN {NullCredentials}
    ELSE {NullCredentials} \cup
         [isNull : {FALSE}, accessToken : {None, "t1"},
          refreshToken : {credentials.refreshToken, "r1"}, expiresIn : ExpiresIn]

\* lines 491-494: the token is refreshed only when it expires within the buffer
needsRefresh(credentials, t) ==
    /\ credentials.expiresAt # 0
    /\ credentials.expiresAt - t < TOKEN_EXPIRY_BUFFER_MS

hasAccessTokenAny(newCredentials) == ~newCredentials.isNull

\* line 500: newCredentials?.accessToken
hasAccessToken(newCredentials) ==
    /\ ~newCredentials.isNull
    /\ newCredentials.accessToken # None

updateCredentialsKeepExpiry(connection, newCredentials, t) ==
    [connection EXCEPT
        !.accessToken = newCredentials.accessToken,
        !.refreshToken = IF newCredentials.refreshToken # None
                         THEN newCredentials.refreshToken ELSE @]

\* lines 648-665: what updateCredentials saves for the connection
updateCredentials(connection, newCredentials, t) ==
    [connection EXCEPT
        !.accessToken = newCredentials.accessToken,
        !.refreshToken = IF newCredentials.refreshToken # None
                         THEN newCredentials.refreshToken ELSE @,
        !.expiresAt = IF newCredentials.expiresIn # 0
                      THEN t + newCredentials.expiresIn ELSE @]

\* lines 507-509: the credentials checkAndRefreshToken returns after a refresh
refreshedCredentials(credentials, newCredentials, t) ==
    [credentials EXCEPT
        !.accessToken = newCredentials.accessToken,
        !.refreshToken = IF newCredentials.refreshToken # None
                         THEN newCredentials.refreshToken ELSE @,
        !.expiresAt = IF newCredentials.expiresIn # 0
                      THEN t + newCredentials.expiresIn ELSE @]

\* lines 490-498: the expiry check, up to the call of refreshTokenByProvider
CheckAndRefreshToken ==
    /\ refresh.pc = "selected"
    /\ refresh' =
          IF needsRefresh(refresh.credentials, now)
          THEN [refresh EXCEPT !.pc = "refreshing", !.attempted = TRUE,
                               !.checkedAt = now]
          ELSE [refresh EXCEPT !.pc = "ready", !.checkedAt = now,
                               !.refreshed = refresh.credentials]
    /\ UNCHANGED <<now, env, keyVars, gateVars, execution, engine, auxVars, poolVars, cloudVars, streamVars>>

\* lines 498-500, 511: the refresh is answered; without an access token the
\* credentials are returned as they were
RefreshTokenByProvider(newCredentials) ==
    /\ refresh.pc = "refreshing"
    /\ newCredentials \in RefreshResults(refresh.credentials)
    /\ refresh' =
          IF hasAccessToken(newCredentials)
          THEN [refresh EXCEPT !.pc = "saving", !.newCredentials = newCredentials]
          ELSE [refresh EXCEPT !.pc = "ready", !.newCredentials = newCredentials,
                               !.refreshed = refresh.credentials]
    /\ UNCHANGED <<now, env, keyVars, gateVars, execution, engine, auxVars, poolVars, cloudVars, streamVars>>

\* lines 501-510: the new credentials are saved and returned
SaveRefreshed ==
    /\ refresh.pc = "saving"
    /\ refresh' =
          [refresh EXCEPT
              !.pc = "ready",
              !.savedAt = now,
              !.stored = updateCredentials(refresh.stored, refresh.newCredentials, now),
              !.refreshed = refreshedCredentials(refresh.credentials,
                                                 refresh.newCredentials, now)]
    /\ UNCHANGED <<now, env, keyVars, gateVars, execution, engine, auxVars, poolVars, cloudVars, streamVars>>

\* lines 453-466: handleChatCore is called with the returned credentials
DispatchChat ==
    /\ refresh.pc = "ready"
    /\ refresh' = [refresh EXCEPT !.pc = "dispatched",
                                  !.sent = refresh.refreshed.accessToken]
    /\ UNCHANGED <<now, env, keyVars, gateVars, execution, engine, auxVars, poolVars, cloudVars, streamVars>>

\* ------------------------------------------- createSSEStream, chunk by chunk
\* the stream seen as parsed chunks, one data line each; the splitting of the
\* text into lines is Split's, above
FORMATS == {"openai", "claude", "gemini", "openai-responses"}
ClientFormats == {"openai", "claude"}

\* what the engine reads of a parsed chunk: type (none, "response.x", another
\* one), whether choices and candidates are defined, the length of the text
\* delta, whether it is the finish chunk, whether it carries valid usage, the
\* length of the reasoning / thinking delta
Chunk(type, choices, candidates, content, finish, usage, thinking) ==
    [type |-> type, choices |-> choices, candidates |-> candidates,
     content |-> content, finish |-> finish, usage |-> usage,
     thinking |-> thinking]

Chunks ==
    {Chunk(None, TRUE, FALSE, 1, FALSE, FALSE, 0),
     Chunk(None, TRUE, FALSE, 0, FALSE, FALSE, 1),
     Chunk(None, TRUE, FALSE, 1, FALSE, TRUE, 0),
     Chunk(None, TRUE, FALSE, 0, TRUE, FALSE, 0),
     Chunk(None, TRUE, FALSE, 0, TRUE, TRUE, 0),
     Chunk("message", FALSE, FALSE, 0, FALSE, FALSE, 0),
     Chunk("message", FALSE, FALSE, 1, FALSE, FALSE, 0),
     Chunk("message", FALSE, FALSE, 0, FALSE, FALSE, 1),
     Chunk("message", FALSE, FALSE, 0, TRUE, FALSE, 0),
     Chunk(None, FALSE, TRUE, 1, FALSE, FALSE, 0),
     Chunk("response.", FALSE, FALSE, 1, FALSE, FALSE, 0),
     Chunk(None, FALSE, FALSE, 0, FALSE, FALSE, 0)}

\* one call of estimateUsage: the completion length it is given, and the
\* length of the visible text accumulated at that moment
Estimate(e, total, visible) ==
    Append(e.estimates, [contentLength |-> total, contentLen |-> visible])

\* what the client receives: a chunk in a wire format, or the terminator
Item(format, content, finish, usage) ==
    [format |-> format, content |-> content, finish |-> finish, usage |-> usage]

doneItem == Item("done", 0, FALSE, None)

\* lines 18-42
detectResponseFormat(chunk) ==
    IF chunk.type = "response." THEN "openai-responses"
    ELSE IF chunk.choices THEN "openai"
    ELSE IF chunk.type # None THEN "claude"
    ELSE IF chunk.candidates THEN "gemini"
    ELSE None

resolveActualTargetFormatNoCache(parsed, targetFormat, detectedFormat) ==
    LET detected == detectResponseFormat(parsed)
    IN  IF detected = None \/ detected = targetFormat
        THEN [format |-> targetFormat, detectedFormat |-> detectedFormat]
        ELSE [format |-> detected, detectedFormat |-> detected]

\* lines 57-71: the format to translate from, and state.detectedFormat after
resolveActualTargetFormat(parsed, targetFormat, detectedFormat) ==
    LET detected == detectResponseFormat(parsed)
    IN  IF detectedFormat # None
        THEN [format |-> detectedFormat, detectedFormat |-> detectedFormat]
        ELSE IF detected = None \/ detected = targetFormat
        THEN [format |-> targetFormat, detectedFormat |-> detectedFormat]
        ELSE [format |-> detected, detectedFormat |-> detected]

\* pipeline step 9: translate when the client's and the provider's formats
\* differ, else passthrough
streamModeFor(sourceFormat, targetFormat) ==
    IF sourceFormat # targetFormat THEN "translate" ELSE "passthrough"

\* streamHelpers: a chunk of the format asked about is kept when it carries
\* text, reasoning, a finish reason or usage; any other chunk is kept
chunkHasValuableContent(chunk, format) ==
    IF detectResponseFormat(chunk) = format
    THEN chunk.content > 0 \/ chunk.thinking > 0 \/ chunk.finish \/ chunk.usage
    ELSE TRUE

itemHasValuableContent(item) ==
    item.content > 0 \/ item.finish \/ item.usage # None

\* translator: one item in the client's format for a chunk
translateChunk(actualTargetFormat, sourceFormat, parsed) ==
    Item(sourceFormat, parsed.content, parsed.finish,
         IF parsed.usage THEN "reported" ELSE None)

\* lines 136-216: one complete line in passthrough mode
PassthroughChunk(e, parsed) ==
    IF ~chunkHasValuableContent(parsed, "openai") THEN e
    ELSE LET content == IF parsed.choices THEN parsed.content ELSE 0
             reasoning == IF parsed.choices THEN parsed.thinking ELSE 0
             total == e.totalContentLength + content + reasoning
             visible == e.accumulatedContent + content
             isFinishChunk == parsed.choices /\ parsed.finish
             extracted == IF parsed.usage THEN "reported" ELSE e.usage
             estimate == isFinishChunk /\ ~parsed.usage
             carried == IF estimate THEN "estimated"
                        ELSE IF isFinishChunk /\ extracted # None THEN extracted
                        ELSE IF parsed.usage THEN "reported" ELSE None
         IN  [e EXCEPT
                !.totalContentLength = total,
                !.accumulatedContent = visible,
                !.accumulatedThinking = @ + reasoning,
                !.captured = @ \/ parsed.usage,
                !.estimates = IF estimate THEN Estimate(e, total, visible) ELSE @,
                !.usage = IF estimate THEN "estimated" ELSE extracted,
                !.out = Append(@, Item(detectResponseFormat(parsed), parsed.content,
                                       parsed.finish, carried))]

\* lines 219-310: one complete line in translate mode
TranslateChunk(e, parsed) ==
    LET total == e.totalContentLength + parsed.content + parsed.thinking
        visible == e.accumulatedContent + parsed.content
        extracted == IF parsed.usage THEN "reported" ELSE e.stateUsage
        actual == resolveActualTargetFormat(parsed, e.targetFormat, e.detectedFormat)
        item == translateChunk(actual.format, e.sourceFormat, parsed)
        finishReason == e.finishReason \/ parsed.finish
        kept == itemHasValuableContent(item)
        estimate == kept /\ finishReason /\ item.finish /\ item.usage = None /\ total > 0
        carried == IF estimate THEN "estimated"
                   ELSE IF finishReason /\ item.finish /\ extracted # None THEN extracted
                   ELSE item.usage
    IN  [e EXCEPT
            !.totalContentLength = total,
            !.accumulatedContent = visible,
            !.accumulatedThinking = @ + parsed.thinking,
            !.captured = @ \/ parsed.usage,
            !.estimates = IF estimate THEN Estimate(e, total, visible) ELSE @,
            !.stateUsage = IF estimate THEN "estimated" ELSE extracted,
            !.detectedFormat = actual.detectedFormat,
            !.finishReason = finishReason,
            !.used = Append(@, actual.format),
            !.out = IF kept THEN Append(@, [item EXCEPT !.usage = carried]) ELSE @]

\* lines 121-312: transform for the next line of the upstream; a last line
\* without its newline stays in the buffer
EngineTransform ==
    /\ engine.pc = "open"
    /\ engine.upstream # <<>>
    /\ LET parsed == Head(engine.upstream)
           rest == [engine EXCEPT !.upstream = Tail(@),
                                  !.seen = Append(@, detectResponseFormat(parsed))]
       IN  engine' =
              IF Len(engine.upstream) = 1 /\ engine.unterminated
              THEN [rest EXCEPT !.buffer = <<parsed>>]
              ELSE IF engine.mode = "passthrough" THEN PassthroughChunk(rest, parsed)
              ELSE TranslateChunk(rest, parsed)
    /\ UNCHANGED <<now, env, keyVars, gateVars, execution, refresh, auxVars, poolVars, cloudVars, streamVars>>

\* lines 320-355: flush in passthrough mode
PassthroughFlush(e) ==
    LET estimate == e.usage = None /\ e.totalContentLength > 0
        usage == IF estimate THEN "estimated" ELSE e.usage
    IN  [e EXCEPT
            !.pc = "flushed",
            !.usage = usage,
            !.estimates = IF estimate
                          THEN Estimate(e, e.totalContentLength, e.accumulatedContent)
                          ELSE @,
            !.out = (IF e.buffer # <<>>
                     THEN Append(@, Item(detectResponseFormat(e.buffer[1]), e.buffer[1].content,
                                         e.buffer[1].finish,
                                         IF e.buffer[1].usage THEN "reported" ELSE None))
                     ELSE @) \o <<doneItem>>,
            !.logged = IF usage # None THEN "usage" ELSE "request",
            !.completed = [called |-> TRUE, content |-> e.accumulatedContent,
                           thinking |-> e.accumulatedThinking, usage |-> usage]]

\* lines 357-418: flush in translate mode (the translator has nothing left)
TranslateFlush(e) ==
    LET actual == IF e.buffer # <<>>
                    THEN resolveActualTargetFormat(e.buffer[1], e.targetFormat, e.detectedFormat)
                    ELSE [format |-> None, detectedFormat |-> e.detectedFormat]
        flushFormat == IF actual.detectedFormat # None
                       THEN actual.detectedFormat ELSE e.targetFormat
        estimate == e.stateUsage = None /\ e.totalContentLength > 0
        usage == IF estimate THEN "estimated" ELSE e.stateUsage
    IN  [e EXCEPT
            !.pc = "flushed",
            !.estimates = IF estimate
                          THEN Estimate(e, e.totalContentLength, e.accumulatedContent)
                          ELSE @,
            !.detectedFormat = actual.detectedFormat,
            !.stateUsage = usage,
            !.used = (IF e.buffer # <<>> THEN Append(@, actual.format) ELSE @)
                        \o <<flushFormat>>,
            !.out = (IF e.buffer # <<>>
                     THEN Append(@, translateChunk(actual.format, e.sourceFormat, e.buffer[1]))
                     ELSE @) \o <<doneItem>>,
            !.logged = IF usage # None THEN "usage" ELSE "request",
            !.completed = [called |-> TRUE, content |-> e.accumulatedContent,
                           thinking |-> e.accumulatedThinking, usage |-> usage]]

\* lines 314-422: the upstream closed; flush runs
EngineFlush ==
    /\ engine.pc = "open"
    /\ engine.upstream = <<>>
    /\ engine' = IF engine.mode = "passthrough"
                 THEN PassthroughFlush(engine) ELSE TranslateFlush(engine)
    /\ UNCHANGED <<now, env, keyVars, gateVars, execution, refresh, auxVars, poolVars, cloudVars, streamVars>>

\* line 120: the transformer has transform and flush only; when the upstream
\* body fails or is aborted the stream is errored and neither of them runs
EngineUpstreamError ==
    /\ engine.pc = "open"
    /\ engine' = [engine EXCEPT !.pc = "errored"]
    /\ UNCHANGED <<now, env, keyVars, gateVars, execution, refresh, auxVars, poolVars, cloudVars, streamVars>>

\* a key is issued for the machine and key ids
IssueKey ==
    /\ keyPc = "ids"
    /\ apiKey' = formatApiKey(keyIds.machineId, keyIds.keyId)
    /\ keyPc' = "issued"
    /\ UNCHANGED <<now, env, keyIds, tampered, parsedKey, gateVars, execution, refresh, engine, auxVars, poolVars, cloudVars, streamVars>>

\* one character of the issued key is replaced by another one
Tamper(i, c) ==
    /\ keyPc = "issued"
    /\ ~tampered
    /\ i \in 1 .. Len(apiKey)
    /\ apiKey[i] # c
    /\ apiKey' = [apiKey EXCEPT ![i] = c]
    /\ tampered' = TRUE
    /\ UNCHANGED <<now, env, keyIds, parsedKey, keyPc, gateVars, execution, refresh, engine, auxVars, poolVars, cloudVars, streamVars>>

\* the holder of the issued key presents its characters split at another
\* place: sk-{m}-{k}-{crc8 of the issued key}
Resplit(m, k) ==
    /\ keyPc = "issued"
    /\ ~tampered
    /\ <<m, k>> # <<keyIds.machineId, keyIds.keyId>>
    /\ m \o k = keyIds.machineId \o keyIds.keyId
    /\ apiKey' = <<"s", "k", "-">> \o m \o <<"-">> \o k \o <<"-">>
                    \o SubSeq(apiKey, Len(apiKey) - CRC_LENGTH + 1, Len(apiKey))
    /\ tampered' = TRUE
    /\ UNCHANGED <<now, env, keyIds, parsedKey, keyPc, gateVars, execution, refresh, engine, auxVars, poolVars, cloudVars, streamVars>>

\* the presented key is parsed
ParseKey ==
    /\ keyPc = "issued"
    /\ parsedKey' = parseApiKey(apiKey)
    /\ keyPc' = "parsed"
    /\ UNCHANGED <<now, env, keyIds, apiKey, tampered, gateVars, execution, refresh, engine, auxVars, poolVars, cloudVars, streamVars>>

\* ------------------------------------------------- OpenAI to Kiro request
\* a message of the body, by what convertMessages reads of it: its role, and
\* for a user message whether its content is tool_result blocks only; the
\* text of the i-th message is <<i>>
MessageKinds == {"system", "user", "toolResults", "assistant", "tool"}
MaxMessages == 3
\* the "\n\n" that joins the texts of merged user messages
Separator == 0

Turn(role, content) == [role |-> role, content |-> content]

\* lines 231-337: the history after the loop over the messages (system, tool
\* and tool-result-only messages add nothing to it)
RECURSIVE pushMessages(_, _)
pushMessages(messages, i) ==
    IF i > Len(messages) THEN <<>>
    ELSE (IF messages[i] = "user" THEN <<Turn("user", <<i>>)>>
          ELSE IF messages[i] = "assistant" THEN <<Turn("assistant", <<i>>)>>
          ELSE <<>>) \o pushMessages(messages, i + 1)

\* lines 284, 368-370: the last user message, popped from the history when
\* it is the history's last item; <<>> when there is none
lastUser(history) ==
    LET users == {i \in 1 .. Len(history) : history[i].role = "user"}
    IN  IF users = {} THEN <<>>
        ELSE <<history[CHOOSE i \in users : \A j \in users : j <= i]>>

popCurrent(history) ==
    IF history # <<>> /\ history[Len(history)].role = "user"
    THEN SubSeq(history, 1, Len(history) - 1)
    ELSE history

\* lines 406-420: consecutive user items of the history become one item
RECURSIVE mergeConsecutive(_, _)
mergeConsecutive(history, merged) ==
    IF history = <<>> THEN merged
    ELSE LET current == Head(history)
         IN  IF current.role = "user" /\ merged # <<>>
                    /\ merged[Len(merged)].role = "user"
             THEN mergeConsecutive(Tail(history),
                     [merged EXCEPT ![Len(merged)].content =
                         @ \o <<Separator>> \o current.content])
             ELSE mergeConsecutive(Tail(history), Append(merged, current))

\* lines 205-423
convertMessages(messages) ==
    LET pushed == pushMessages(messages, 1)
    IN  [history |-> mergeConsecutive(popCurrent(pushed), <<>>),
         currentMessage |-> lastUser(pushed)]

\* lines 428-477: the payload's history, and its currentMessage, which is a
\* user turn whatever the messages were
BuildKiroPayload ==
    /\ kiro.pc = "body"
    /\ LET converted == convertMessages(kiro.messages)
       IN  kiro' = [kiro EXCEPT
                       !.pc = "built",
                       !.history = converted.history,
                       !.currentMessage =
                           IF converted.currentMessage = <<>> THEN Turn("user", <<>>)
                           ELSE converted.currentMessage[1]]
    /\ UNCHANGED <<now, env, keyVars, gateVars, execution, refresh, engine, queue, poolVars, cloudVars, streamVars>>

\* ------------------------------------------------ request details, batched
MaxDetails == 3
Details == 1 .. MaxDetails
BatchSizes == {1, 2}

InBuffer(d) == \E i \in 1 .. Len(queue.writeBuffer) : queue.writeBuffer[i] = d

\* lines 299-310: flushToDatabase up to its first await; who awaits it is 0
\* for the timer callback, which does not
flushToDatabase(q, awaiting) ==
    IF q.isFlushing \/ q.writeBuffer = <<>> THEN q
    ELSE [q EXCEPT !.isFlushing = TRUE,
                   !.itemsToSave = q.writeBuffer,
                   !.writeBuffer = <<>>,
                   !.awaiting = awaiting]

\* lines 422-425: saveRequestDetail is called and awaits the cached config
SaveRequestDetail(d) ==
    /\ queue.pc[d] = "idle"
    /\ queue' = [queue EXCEPT !.pc[d] = "config"]
    /\ UNCHANGED <<now, env, keyVars, gateVars, execution, refresh, engine, kiro, poolVars, cloudVars, streamVars>>

\* lines 426-445: the config is there; the detail is pushed, and then the
\* buffer is flushed at batchSize, or else the timer is armed if none is
SaveRequestDetailPush(d) ==
    /\ queue.pc[d] = "config"
    /\ LET pushed == [queue EXCEPT !.writeBuffer = Append(@, d)]
           started == flushToDatabase(pushed, d)
       IN  queue' =
              IF ~queue.enabled THEN [queue EXCEPT !.pc[d] = "done"]
              ELSE IF Len(pushed.writeBuffer) >= queue.batchSize
              THEN IF started = pushed
                   THEN [pushed EXCEPT !.flushTimer = FALSE, !.pc[d] = "done"]
                   ELSE [started EXCEPT !.pc[d] = "flushing"]
              ELSE [pushed EXCEPT !.flushTimer = TRUE, !.pc[d] = "done"]
    /\ UNCHANGED <<now, env, keyVars, gateVars, execution, refresh, engine, kiro, poolVars, cloudVars, streamVars>>

\* lines 311-374, 435-438: the flush in progress writes its snapshot (or
\* fails and logs) and resets isFlushing; the saveRequestDetail that awaited
\* it goes on and clears the timer
FlushToDatabaseEnd ==
    /\ queue.isFlushing
    /\ queue' = [queue EXCEPT
                    !.isFlushing = FALSE,
                    !.itemsToSave = <<>>,
                    !.awaiting = 0,
                    !.handed = @ \cup {queue.itemsToSave[i] : i \in 1 .. Len(queue.itemsToSave)},
                    !.flushTimer = IF queue.awaiting # 0 THEN FALSE ELSE @,
                    !.pc = IF queue.awaiting # 0
                           THEN [@ EXCEPT ![queue.awaiting] = "done"] ELSE @]
    /\ UNCHANGED <<now, env, keyVars, gateVars, execution, refresh, engine, kiro, poolVars, cloudVars, streamVars>>

\* lines 440-443: the timer fires: flushToDatabase() is started, not awaited,
\* and flushTimer is set to null
FlushTimerFires ==
    /\ queue.flushTimer
    /\ queue' = [flushToDatabase(queue, 0) EXCEPT !.flushTimer = FALSE]
    /\ UNCHANGED <<now, env, keyVars, gateVars, execution, refresh, engine, kiro, poolVars, cloudVars, streamVars>>

\* ---------------------------------------------------------------- dashboard
\* the user pauses a connection: updateProviderConnection(id, { isActive: false })
SetInactive(id) ==
    /\ conns[id].isActive
    /\ conns' = updateProviderConnection(conns, id, [isActive |-> FALSE])
    /\ UNCHANGED <<now, modelLocks, settings, provider, selectionMutex, resolved,
                   callsLeft, pc, call, obs, selLog, failLevel, env, cloudVars, streamVars, edgeVars>>

\* ------------------------------------------------------------------ clock
Tick ==
    /\ now < MaxTime
    /\ now' = now + 1
    /\ UNCHANGED <<conns, modelLocks, settings, provider, selectionMutex, resolved,
                   callsLeft, pc, call, obs, selLog, failLevel, env, cloudVars, streamVars, edgeVars>>

Next ==
    \/ \E r \in Reqs : Call(r)
    \/ \E r \in Reqs : SelectRead(r)
    \/ \E r \in Reqs : SelectChoose(r)
    \/ \E r \in Reqs : SelectWrite(r)
    \/ \E r \in Reqs : MarkRead(r)
    \/ \E r \in Reqs : MarkWrite(r)
    \/ \E r \in Reqs : ClearAccountError(r)
    \/ Tick

Spec == Init /\ [][Next]_vars

SpecSeq == InitSeq /\ [][Next]_vars

SpecSwitch == InitSwitch /\ [][Next]_vars

\* one request at a time, while the user may pause connections
InitAdmin ==
    /\ conns = [id \in ConnIds |-> FreshConn(TRUE, IF id = "A" THEN 1 ELSE 2)]
    /\ settings \in [fallbackStrategy : Strategies]
    /\ provider \in Providers
    /\ InitPool([reqs |-> {"r1"}, chats |-> {}, calls |-> MaxSeqCalls, log |-> FALSE,
                 excls |-> ConnIds \cup {None}, models |-> {None, "m1"},
                 failures |-> {<<429, "bad request">>, <<503, "bad request">>}])
    /\ CloudOff
    /\ StreamOff
    /\ EdgeOff

NextAdmin ==
    \/ Next
    \/ \E id \in ConnIds : SetInactive(id)

SpecAdmin == InitAdmin /\ [][NextAdmin]_vars

\* fill-first, one request at a time, over a span in which a model lock expires
InitLock ==
    /\ conns = [id \in ConnIds |-> FreshConn(TRUE, IF id = "A" THEN 1 ELSE 2)]
    /\ settings = [fallbackStrategy |-> "fill-first"]
    /\ provider \in Providers
    /\ InitPool([reqs |-> {"r1"}, chats |-> {}, calls |-> MaxSeqCalls, log |-> FALSE,
                 excls |-> {None}, models |-> Models,
                 failures |-> {<<429, "bad request">>}])
    /\ CloudOff
    /\ StreamOff
    /\ EdgeOff

TickLock ==
    /\ now < MaxLockTime
    /\ now' = now + 1
    /\ UNCHANGED <<conns, modelLocks, settings, provider, selectionMutex, resolved,
                   callsLeft, pc, call, obs, selLog, failLevel, env, cloudVars, streamVars, edgeVars>>

NextLock ==
    \/ \E r \in Reqs : Call(r)
    \/ \E r \in Reqs : SelectRead(r)
    \/ \E r \in Reqs : SelectChoose(r)
    \/ \E r \in Reqs : MarkRead(r)
    \/ \E r \in Reqs : MarkWrite(r)
    \/ \E r \in Reqs : ClearAccountError(r)
    \/ TickLock

SpecLock == InitLock /\ [][NextLock]_vars

\* two concurrent requests whose storage calls may throw, on connections
\* that may be paused; every call that holds the mutex goes on
InitMutex ==
    /\ conns \in [ConnIds -> {FreshConn(a, 1) : a \in BOOLEAN}]
    /\ settings \in [fallbackStrategy : Strategies]
    /\ provider = "openai"
    /\ InitPool([reqs |-> Reqs, chats |-> {}, calls |-> MaxCalls, log |-> FALSE,
                 excls |-> {None}, models |-> {None},
                 failures |-> {<<429, "bad request">>}])
    /\ CloudOff
    /\ StreamOff
    /\ EdgeOff

NextMutex ==
    \/ \E r \in Reqs : Call(r)
    \/ \E r \in Reqs : SelectRead(r)
    \/ \E r \in Reqs : SelectChoose(r)
    \/ \E r \in Reqs : SelectWrite(r)
    \/ \E r \in Reqs : StorageThrows(r)
    \/ \E r \in Reqs : MarkRead(r)
    \/ \E r \in Reqs : MarkWrite(r)
    \/ \E r \in Reqs : ClearAccountError(r)

SpecMutex ==
    /\ InitMutex
    /\ [][NextMutex]_vars
    /\ \A r \in Reqs : /\ WF_vars(SelectRead(r))
                        /\ WF_vars(SelectChoose(r))
                        /\ WF_vars(SelectWrite(r))

\* one key issued for any machine and key ids, presented as issued or with
\* one character changed
InitKey ==
    /\ conns = [id \in ConnIds |-> FreshConn(TRUE, IF id = "A" THEN 1 ELSE 2)]
    /\ settings = [fallbackStrategy |-> "fill-first"]
    /\ provider = "openai"
    /\ InitPool([reqs |-> {}, chats |-> {}, calls |-> 0, log |-> FALSE,
                 excls |-> {None}, models |-> {None}, failures |-> {}])
    /\ CloudOff
    /\ StreamOff
    /\ AuxOff
    /\ keyIds \in [machineId : Ids, keyId : Ids]
    /\ apiKey = <<>>
    /\ tampered = FALSE
    /\ parsedKey = NoParse
    /\ keyPc = "ids"
    /\ GateOff
    /\ ExecOff
    /\ RefreshOff
    /\ EngineOff

NextKey ==
    \/ IssueKey
    \/ \E i \in 1 .. (2 * MaxIdLen + 5 + CRC_LENGTH), c \in TamperChars : Tamper(i, c)
    \/ ParseKey

SpecKey == InitKey /\ [][NextKey]_vars

\* one key issued for any machine and key ids, presented as issued or with
\* its id characters split at another place
NextResplit ==
    \/ IssueKey
    \/ \E m \in Ids, k \in Ids : Resplit(m, k)
    \/ ParseKey

SpecResplit == InitKey /\ [][NextResplit]_vars

\* one request body with any messages
InitKiro ==
    /\ conns = [id \in ConnIds |-> FreshConn(TRUE, IF id = "A" THEN 1 ELSE 2)]
    /\ settings = [fallbackStrategy |-> "fill-first"]
    /\ provider = "openai"
    /\ InitPool([reqs |-> {}, chats |-> {}, calls |-> 0, log |-> FALSE,
                 excls |-> {None}, models |-> {None}, failures |-> {}])
    /\ CloudOff
    /\ StreamOff
    /\ KeyOff
    /\ GateOff
    /\ ExecOff
    /\ RefreshOff
    /\ EngineOff
    /\ QueueOff
    /\ \E messages \in UNION {[1 .. n -> MessageKinds] : n \in 0 .. MaxMessages} :
          kiro = [NoKiro EXCEPT !.pc = "body", !.messages = messages]

SpecKiro == InitKiro /\ [][BuildKiroPayload]_vars

\* the request-details queue of a running process, for any batch size
InitQueue ==
    /\ conns = [id \in ConnIds |-> FreshConn(TRUE, IF id = "A" THEN 1 ELSE 2)]
    /\ settings = [fallbackStrategy |-> "fill-first"]
    /\ provider = "openai"
    /\ InitPool([reqs |-> {}, chats |-> {}, calls |-> 0, log |-> FALSE,
                 excls |-> {None}, models |-> {None}, failures |-> {}])
    /\ CloudOff
    /\ StreamOff
    /\ KeyOff
    /\ GateOff
    /\ ExecOff
    /\ RefreshOff
    /\ EngineOff
    /\ KiroOff
    /\ \E enabled \in BOOLEAN, batchSize \in BatchSizes :
          queue = [NoQueue EXCEPT !.enabled = enabled, !.batchSize = batchSize,
                                  !.pc = [d \in Details |-> "idle"]]

NextQueue ==
    \/ \E d \in Details : SaveRequestDetail(d)
    \/ \E d \in Details : SaveRequestDetailPush(d)
    \/ FlushToDatabaseEnd
    \/ FlushTimerFires

\* the event loop runs every continuation whose await settled and every
\* timer that is due; whether further details arrive is left free
SpecQueue ==
    /\ InitQueue
    /\ [][NextQueue]_vars
    /\ \A d \in Details : WF_vars(SaveRequestDetailPush(d))
    /\ WF_vars(FlushToDatabaseEnd)
    /\ WF_vars(FlushTimerFires)

\* requests at the worker's gate, for any set of issued keys, active or paused
InitGate ==
    /\ conns = [id \in ConnIds |-> FreshConn(TRUE, IF id = "A" THEN 1 ELSE 2)]
    /\ settings = [fallbackStrategy |-> "fill-first"]
    /\ provider = "openai"
    /\ InitPool([reqs |-> {}, chats |-> {}, calls |-> 0, log |-> FALSE,
                 excls |-> {None}, models |-> {None}, failures |-> {}])
    /\ CloudOff
    /\ StreamOff
    /\ AuxOff
    /\ KeyOff
    /\ apiKeys \in {ks \in SUBSET [key : GateKeys, isActive : BOOLEAN] :
                        \A k1, k2 \in ks : k1.key = k2.key => k1 = k2}
    /\ gate = NoGate
    /\ ExecOff
    /\ RefreshOff
    /\ EngineOff

NextGate ==
    \/ \E request \in [authorization : GateKeys \cup {<<>>}, xApiKey : GateKeys \cup {<<>>}],
          machineIdOverride \in MachineIds \cup {<<>>} :
            handleChat(request, machineIdOverride)
    \/ \E request \in [authorization : GateKeys \cup {<<>>}, xApiKey : GateKeys \cup {<<>>}],
          machineIdOverride \in MachineIds \cup {<<>>} :
            handleModels(request, machineIdOverride)
    \/ \E key \in GateKeys, isActive \in BOOLEAN : handleToggleKey(key, isActive)

SpecGate == InitGate /\ [][NextGate]_vars

\* one call of execute against an upstream that may answer anything
InitExec ==
    /\ conns = [id \in ConnIds |-> FreshConn(TRUE, IF id = "A" THEN 1 ELSE 2)]
    /\ settings = [fallbackStrategy |-> "fill-first"]
    /\ provider = "antigravity"
    /\ InitPool([reqs |-> {}, chats |-> {}, calls |-> 0, log |-> FALSE,
                 excls |-> {None}, models |-> {None}, failures |-> {}])
    /\ CloudOff
    /\ StreamOff
    /\ AuxOff
    /\ KeyOff
    /\ GateOff
    /\ ExecOff
    /\ RefreshOff
    /\ EngineOff

NextExec ==
    \/ Execute
    \/ \E status \in FetchStatuses, retryMs \in RetryMs : Fetch(status, retryMs)

SpecExec == InitExec /\ [][NextExec]_vars

\* one call of execute that keeps running: every fetch is answered
NextExecFair ==
    \/ Execute
    \/ \E status \in FetchStatuses, retryMs \in RetryMs : FetchAgain(status, retryMs)

SpecExecFair == InitExec /\ [][NextExecFair]_vars /\ WF_vars(NextExecFair)

\* one dispatch whose client may disconnect at any time
NextCancel ==
    \/ Execute
    \/ \E status \in FetchStatuses, retryMs \in RetryMs : Fetch(status, retryMs)
    \/ SignalAbort
    \/ FetchRejected
    \/ ChatResult

SpecCancel == InitExec /\ [][NextCancel]_vars

\* one chat request whose selected credential expires at any time
InitRefresh ==
    /\ conns = [id \in ConnIds |-> FreshConn(TRUE, IF id = "A" THEN 1 ELSE 2)]
    /\ settings = [fallbackStrategy |-> "fill-first"]
    /\ provider = "antigravity"
    /\ InitPool([reqs |-> {}, chats |-> {}, calls |-> 0, log |-> FALSE,
                 excls |-> {None}, models |-> {None}, failures |-> {}])
    /\ CloudOff
    /\ StreamOff
    /\ AuxOff
    /\ KeyOff
    /\ GateOff
    /\ ExecOff
    /\ EngineOff
    /\ \E connection \in StoredConnections :
          refresh = [NoRefresh EXCEPT !.pc = "selected", !.stored = connection,
                                      !.credentials = connection]

NextRefresh ==
    \/ CheckAndRefreshToken
    \/ \E newCredentials \in RefreshResults(refresh.credentials) :
          RefreshTokenByProvider(newCredentials)
    \/ SaveRefreshed
    \/ DispatchChat
    \/ Tick

SpecRefresh == InitRefresh /\ [][NextRefresh]_vars

\* one stream of any chunks, for any client and provider format
InitEngine ==
    /\ conns = [id \in ConnIds |-> FreshConn(TRUE, IF id = "A" THEN 1 ELSE 2)]
    /\ settings = [fallbackStrategy |-> "fill-first"]
    /\ provider = "openai"
    /\ InitPool([reqs |-> {}, chats |-> {}, calls |-> 0, log |-> FALSE,
                 excls |-> {None}, models |-> {None}, failures |-> {}])
    /\ CloudOff
    /\ StreamOff
    /\ AuxOff
    /\ KeyOff
    /\ GateOff
    /\ ExecOff
    /\ RefreshOff
    /\ \E sourceFormat \in ClientFormats, targetFormat \in ClientFormats,
          chunks \in UNION {[1 .. n -> Chunks] : n \in 0 .. MaxEvents},
          unterminated \in BOOLEAN :
          engine = [NoEngine EXCEPT
                        !.pc = "open",
                        !.mode = streamModeFor(sourceFormat, targetFormat),
                        !.sourceFormat = sourceFormat,
                        !.targetFormat = targetFormat,
                        !.upstream = chunks,
                        !.unterminated = unterminated]

NextEngine ==
    \/ EngineTransform
    \/ EngineFlush
    \/ EngineUpstreamError

SpecEngine == InitEngine /\ [][NextEngine]_vars

\* one chat request at a time on the cloud worker, on connections of any
\* priority and activity; the local pool is not used
InitCloud ==
    /\ conns = [id \in ConnIds |-> FreshConn(TRUE, IF id = "A" THEN 1 ELSE 2)]
    /\ settings = [fallbackStrategy |-> "fill-first"]
    /\ provider = "openai"
    /\ InitPool([reqs |-> {}, chats |-> {"q1"}, calls |-> 0, log |-> FALSE,
                 excls |-> {None}, models |-> {None},
                 failures |-> {<<400, "bad request">>, <<400, "rate limit">>,
                               <<429, "bad request">>, <<503, "bad request">>}])
    /\ machine \in [ConnIds -> {CloudConn(a, p) : a \in BOOLEAN, p \in Priorities}]
    /\ chatsLeft = MaxChats
    /\ chatPc = [q \in ChatReqs |-> "idle"]
    /\ chat = [q \in ChatReqs |-> NoChat]
    /\ StreamOff
    /\ EdgeOff

NextCloud ==
    \/ \E q \in ChatReqs : ChatStart(q)
    \/ \E q \in ChatReqs : ChatSelect(q)
    \/ \E q \in ChatReqs : ChatSuccess(q)
    \/ \E q \in ChatReqs : ChatClearSave(q)
    \/ \E q \in ChatReqs : ChatFail(q)
    \/ \E q \in ChatReqs : ChatMarkSave(q)
    \/ Tick

SpecCloud == InitCloud /\ [][NextCloud]_vars

\* two concurrent chat requests of one machine, on two active connections
InitCloudPair ==
    /\ conns = [id \in ConnIds |-> FreshConn(TRUE, IF id = "A" THEN 1 ELSE 2)]
    /\ settings = [fallbackStrategy |-> "fill-first"]
    /\ provider = "openai"
    /\ InitPool([reqs |-> {}, chats |-> ChatReqs, calls |-> 0, log |-> FALSE,
                 excls |-> {None}, models |-> {None},
                 failures |-> {<<429, "bad request">>, <<503, "bad request">>}])
    /\ machine = [id \in ConnIds |-> CloudConn(TRUE, IF id = "A" THEN 1 ELSE 2)]
    /\ chatsLeft = MaxChats
    /\ chatPc = [q \in ChatReqs |-> "idle"]
    /\ chat = [q \in ChatReqs |-> NoChat]
    /\ StreamOff
    /\ EdgeOff

SpecCloudPair == InitCloudPair /\ [][NextCloud]_vars

\* one stream of any upstream text, delivered in any chunks, in either mode
InitStream ==
    /\ conns = [id \in ConnIds |-> FreshConn(TRUE, IF id = "A" THEN 1 ELSE 2)]
    /\ settings = [fallbackStrategy |-> "fill-first"]
    /\ provider = "openai"
    /\ InitPool([reqs |-> {}, chats |-> {}, calls |-> 0, log |-> FALSE,
                 excls |-> {None}, models |-> {None}, failures |-> {}])
    /\ CloudOff
    /\ EdgeOff
    /\ mode \in STREAM_MODE
    /\ upstream \in UNION {[1 .. n -> Symbols] : n \in 0 .. MaxStreamLen}
    /\ buffer = <<>>
    /\ controller = <<>>
    /\ streamPc = "open"

NextStream == Transform \/ Flush

SpecStream == InitStream /\ [][NextStream]_vars

\* the requests all succeed
NextRR ==
    \/ \E r \in Reqs : Call(r)
    \/ \E r \in Reqs : SelectRead(r)
    \/ \E r \in Reqs : SelectChoose(r)
    \/ \E r \in Reqs : SelectWrite(r)
    \/ \E r \in Reqs : ClearAccountError(r)
    \/ Tick

SpecRR == InitRR /\ [][NextRR]_vars


\* ======================================================== claims, local pool
InCriticalSection(r) == pc[r] \in {"settings", "write"}
Returned(r) == pc[r] = "dispatch" /\ call[r].result.kind = "cred"
Multi == isMultiBucketProvider(provider)

\* eligibility in the claim's words, on the pool `o` observed when the call filtered
Eligible(o, id, model) ==
    /\ o.conns[id].isActive
    /\ (o.conns[id].rateLimitedUntil = 0 \/ o.conns[id].rateLimitedUntil <= o.now)
    /\ id # o.excl
    /\ (Multi /\ model # None) =>
            ~(o.locks[<<id, model>>] # 0 /\ o.locks[<<id, model>>] > o.now)

\* C1: every connection getProviderCredentials returns was, when the call
\* filtered the pool, active, not rate limited (rateLimitedUntil absent or
\* <= now), different from excludeId and, for a multi-bucket provider and a
\* given model, not under an unexpired model lock.
C1_SelectedIsEligible ==
    \A r \in Reqs : Returned(r) =>
        Eligible(obs[r], call[r].result.connectionId, call[r].model)

\* C1 witness: B was returned while A was passed over as rate limited
C1_Witness ==
    \E r \in Reqs :
        /\ Returned(r)
        /\ call[r].result.connectionId = "B"
        /\ obs[r].conns["A"].isActive
        /\ obs[r].excl = None
        /\ obs[r].conns["A"].rateLimitedUntil > obs[r].now

\* C2: at most one getProviderCredentials call is between its read of the
\* connections and the end of its awaited recency write.
C2_MutualExclusion ==
    Cardinality({r \in Reqs : InCriticalSection(r)}) <= 1

\* C2 witness: one call awaits its recency write while the other call has
\* started and waits for the mutex
C2_Witness ==
    \E r, q \in Reqs : r # q /\ pc[r] = "write" /\ pc[q] = "waiting"

\* C3: under round-robin a call in its critical section acts on the current
\* recency data: the lastUsedAt / consecutiveUseCount it read are the stored
\* ones, and the update it is about to persist is the one the algorithm
\* yields on the stored data, as in a serial execution.
C3_SerialRecency ==
    \A r \in Reqs : (settings.fallbackStrategy = "round-robin" /\ InCriticalSection(r)) =>
        /\ \A id \in ConnIds :
            /\ call[r].snap[id].lastUsedAt = conns[id].lastUsedAt
            /\ call[r].snap[id].consecutiveUseCount = conns[id].consecutiveUseCount
        /\ pc[r] = "write" =>
            LET serial == RoundRobin(conns, call[r].availableConnections)
            IN  /\ call[r].update.id = serial.id
                /\ call[r].update.data.consecutiveUseCount = serial.data.consecutiveUseCount

\* C3 witness: the second of two overlapping calls persists count 2 on the
\* connection the first one, still in flight, was given with count 1
C3_Witness ==
    \E r, q \in Reqs :
        /\ r # q
        /\ settings.fallbackStrategy = "round-robin"
        /\ Returned(q)
        /\ pc[r] = "write"
        /\ call[r].update.id = call[q].result.connectionId
        /\ call[r].update.data.consecutiveUseCount = 2


\* a step in which request r's markAccountUnavailable finishes / r's success is recorded
MarkStep(r) == pc[r] = "marking" /\ pc'[r] = "idle"
SuccessStep(r) == pc[r] = "dispatch" /\ pc'[r] = "idle"
Policy(r) == checkFallbackError(call[r].status, call[r].errorText, call[r].backoffLevel)
LockPath(r) == Multi /\ call[r].status = 429 /\ call[r].model # None
RateLimitClass(r) == call[r].status = 429 \/ call[r].errorText = "rate limit"

\* C6 as claimed: a failure recorded after an earlier failure of the same
\* connection, with no success in between, leaves backoffLevel strictly greater
\* than the earlier failure left it, whatever the status and the provider.
C6_Claimed ==
    [][\A r \in Reqs :
        LET id == call[r].result.connectionId
        IN  (MarkStep(r) /\ Policy(r).shouldFallback /\ failLevel[id] # -1)
                => conns'[id].backoffLevel > failLevel[id]]_vars

\* C6 amended: when the later markAccountUnavailable call read the connection
\* after the earlier failure was written (the level it read is the stored
\* one), the stored backoffLevel is strictly greater after it if the failure
\* is rate-limit classified (status 429 or a rate-limit error text) and takes
\* the persisted path, and unchanged if it has another fallback status or
\* takes the model-lock path of a multi-bucket provider.
C6_BackoffGrowsOnRateLimit ==
    [][\A r \in Reqs :
        LET id == call[r].result.connectionId
        IN  (MarkStep(r) /\ Policy(r).shouldFallback /\ failLevel[id] # -1
                /\ call[r].backoffLevel = failLevel[id]
                /\ conns[id].backoffLevel = failLevel[id])
                => IF RateLimitClass(r) /\ ~LockPath(r)
                   THEN conns'[id].backoffLevel > failLevel[id]
                   ELSE conns'[id].backoffLevel = failLevel[id]]_vars

\* C6 witness: two rate-limit failures in a row were persisted on A
C6_Witness == failLevel["A"] = 2 /\ conns["A"].backoffLevel = 2

\* C7 as claimed: when a request on connection C succeeds, C's stored state is
\* clean afterwards: backoffLevel 0, status active, no lastError, no
\* rateLimitedUntil, whatever other requests recorded on C meanwhile.
C7_Claimed ==
    [][\A r \in Reqs :
        LET id == call[r].result.connectionId
        IN  SuccessStep(r) =>
                /\ conns'[id].backoffLevel = 0
                /\ conns'[id].testStatus = "active"
                /\ conns'[id].lastError = None
                /\ conns'[id].rateLimitedUntil = 0]_vars

\* C9: under fill-first with A preferred over B (both active), a selection
\* made while A.rateLimitedUntil > now returns B when B is eligible, and a
\* selection made at or after A.rateLimitedUntil returns A, although nothing
\* reset A's status.
C9_FillFirstCooldown ==
    \A r \in Reqs :
        (/\ Returned(r)
         /\ settings.fallbackStrategy = "fill-first"
         /\ obs[r].conns["A"].isActive /\ obs[r].conns["B"].isActive
         /\ obs[r].conns["A"].priority < obs[r].conns["B"].priority)
        => /\ (obs[r].conns["A"].rateLimitedUntil > obs[r].now
                    /\ Eligible(obs[r], "B", call[r].model))
                => call[r].result.connectionId = "B"
           /\ (obs[r].conns["A"].testStatus = "unavailable"
                    /\ Eligible(obs[r], "A", call[r].model))
                => call[r].result.connectionId = "A"

\* C9 witness: A, marked failed earlier and never reset, is returned at the
\* very instant its rateLimitedUntil is reached
C9_Witness ==
    \E r \in Reqs :
        /\ Returned(r)
        /\ settings.fallbackStrategy = "fill-first"
        /\ obs[r].conns["B"].isActive /\ obs[r].excl = None
        /\ call[r].result.connectionId = "A"
        /\ call[r].result.testStatus = "unavailable"
        /\ obs[r].conns["A"].rateLimitedUntil = obs[r].now

\* C10 as claimed: round-robin with sticky limit 3, no failure, fresh A and B,
\* A the lower priority number: the first five selections are A, A, A, B, B.
C10_Claimed ==
    (/\ env.log
     /\ settings.fallbackStrategy = "round-robin"
     /\ conns["A"].priority < conns["B"].priority
     /\ Len(selLog) >= 5)
    => [i \in 1 .. 5 |-> selLog[i].conn] = <<"A", "A", "A", "B", "B">>


\* ---------------------------------------------------------- cloud worker
ChatSelected(q) == chatPc[q] = "dispatch"
CloudEligibleAt(seen, id) ==
    /\ seen.providers[id].isActive
    /\ id # seen.excl
    /\ ~(seen.providers[id].rateLimitedUntil # 0 /\ seen.providers[id].rateLimitedUntil > seen.now)

\* C5: in the fallback loop, a dispatch failure the policy classifies as
\* retryable goes on to mark the connection failed (status unavailable, the
\* error code recorded, rateLimitedUntil set) and makes it the excluded
\* connection, and the next selection of the request does not return it; a
\* failure classified non-retryable is answered with the upstream status and
\* body and leaves the stored document untouched.
C5_FallbackLoop ==
    [][\A q \in ChatReqs :
        LET id == chat[q].credentials.id
        IN  /\ (chatPc[q] = "dispatch" /\ chatPc'[q] = "marking")
                => checkFallbackError(chat'[q].status, chat'[q].errorText, 0).shouldFallback
            /\ (chatPc[q] = "marking" /\ chatPc'[q] # "marking")
                => /\ chatPc'[q] = "select"
                   /\ chat'[q].excludeConnectionId = id
                   /\ machine'[id].status = "unavailable"
                   /\ machine'[id].errorCode = chat[q].status
                   /\ machine'[id].rateLimitedUntil # 0
            /\ (chatPc[q] = "select" /\ chatPc'[q] = "dispatch")
                => chat'[q].credentials.id # chat[q].excludeConnectionId
            /\ (chatPc[q] = "dispatch" /\ chatPc'[q] = "idle"
                    /\ chat'[q].response.status # 200)
                => /\ ~checkFallbackError(chat'[q].response.status,
                                          chat'[q].response.body, 0).shouldFallback
                   /\ machine' = machine]_vars

\* C5 witness: A failed and was marked, the same request now holds B
C5_Witness ==
    \E q \in ChatReqs :
        /\ ChatSelected(q)
        /\ chat[q].excludeConnectionId = "A"
        /\ chat[q].credentials.id = "B"
        /\ machine["A"].status = "unavailable"
        /\ chat[q].seen.providers["A"].rateLimitedUntil <= chat[q].seen.now

RECURSIVE CountDone(_)
CountDone(text) ==
    IF Len(text) < 3 THEN 0
    ELSE (IF SubSeq(text, 1, 3) = doneOutput THEN 1 ELSE 0) + CountDone(Tail(text))

C11_Claimed ==
    (env.log /\ settings.fallbackStrategy = "round-robin") =>
        \A i \in 2 .. Len(selLog) :
            selLog[i].conn # selLog[i - 1].conn => selLog[i].count = 1


\* --------------------------------------------------------- AllRateLimited
AnsweredAllRateLimited(r) ==
    /\ pc[r] = "idle"
    /\ call[r].result.kind = "allRateLimited"
    /\ call[r].result.lastError # "All accounts rate limited for model"

\* the active connections that were rate limited when the call read the pool
LimitedAt(o) ==
    {id \in ConnIds : /\ o.conns[id].isActive
                      /\ o.conns[id].rateLimitedUntil # 0
                      /\ o.conns[id].rateLimitedUntil > o.now}

\* C12 as claimed: an AllRateLimited answer (other than the 60 s answer for
\* model locks) rests on active connections with rateLimitedUntil > now:
\* there is one, retryAfter is the least such rateLimitedUntil, and lastError
\* and lastErrorCode are those of a connection bearing it.
C12_Claimed ==
    \A r \in Reqs :
        AnsweredAllRateLimited(r) =>
            /\ LimitedAt(obs[r]) # {}
            /\ \E id \in LimitedAt(obs[r]) :
                /\ call[r].result.retryAfter = obs[r].conns[id].rateLimitedUntil
                /\ \A other \in LimitedAt(obs[r]) :
                    obs[r].conns[id].rateLimitedUntil <= obs[r].conns[other].rateLimitedUntil
                /\ call[r].result.lastError = obs[r].conns[id].lastError
                /\ call[r].result.lastErrorCode = obs[r].conns[id].errorCode


\* ------------------------------------------------------- model-level lock
\* C13: when markAccountUnavailable handles a 429 of a multi-bucket provider
\* for a named model, it sets the in-memory lock of (connectionId, model) to
\* expire cooldownMs from now (DEFAULT_MODEL_LOCK_MS from now when cooldownMs
\* is 0), leaves every other lock alone and writes no field of any connection.
C13_ModelLockOnly ==
    [][\A r \in Reqs :
        LET id == call[r].result.connectionId
            duration == IF Policy(r).cooldownMs > 0 THEN Policy(r).cooldownMs
                        ELSE DEFAULT_MODEL_LOCK_MS
        IN  (MarkStep(r) /\ LockPath(r)) =>
                /\ modelLocks'[<<id, call[r].model>>] = now + duration
                /\ \A k \in DOMAIN modelLocks :
                    k # <<id, call[r].model>> => modelLocks'[k] = modelLocks[k]
                /\ conns' = conns]_vars

\* a model is locked on a connection whose stored health has never been written
C13_Witness ==
    \E id \in ConnIds, model \in Models :
        /\ modelLocks[<<id, model>>] > now
        /\ conns[id].rateLimitedUntil = 0
        /\ conns[id].testStatus = "active"
        /\ conns[id].lastError = None
        /\ conns[id].errorCode = 0
        /\ conns[id].backoffLevel = 0


\* ------------------------------------------------------ scope of a model lock
Filtered(r) == pc[r] \in {"settings", "write"}

\* C14: for a multi-bucket provider, the connections a selection for a model
\* keeps are exactly those that are active, not rate limited, not excluded and
\* not under an unexpired lock for that same model: a lock on (X, m1) never
\* removes X from a selection for m2, X is never returned for m1 while the
\* lock is unexpired, and X is kept again for m1 once the lock has expired.
C14_LockScopedToModel ==
    \A r \in Reqs :
        (Multi /\ call[r].model # None) =>
            /\ Filtered(r) =>
                Range(call[r].availableConnections) =
                    {id \in ConnIds :
                        /\ obs[r].conns[id].isActive
                        /\ ~(obs[r].conns[id].rateLimitedUntil > obs[r].now)
                        /\ id # obs[r].excl
                        /\ ~(obs[r].locks[<<id, call[r].model>>] > obs[r].now)}
            /\ Returned(r) =>
                ~(obs[r].locks[<<call[r].result.connectionId, call[r].model>>] > obs[r].now)

\* A is returned for m1 at the expiry of its lock for m1, while A is still
\* locked for m2
C14_Witness ==
    \E r \in Reqs :
        /\ Multi
        /\ Returned(r)
        /\ call[r].model = "m1"
        /\ call[r].result.connectionId = "A"
        /\ obs[r].locks[<<"A", "m1">>] # 0
        /\ obs[r].locks[<<"A", "m1">>] <= obs[r].now
        /\ obs[r].locks[<<"A", "m2">>] > obs[r].now


\* ------------------------------------------------- answers without credentials
\* the selection of request q, made in this step, returns AllRateLimited
AllRateLimitedStep(q) ==
    /\ chatPc[q] = "select"
    /\ chatPc'[q] = "idle"
    /\ CloudGetProviderCredentials(machine, chat[q].excludeConnectionId).kind = "allRateLimited"

\* C15 as claimed: whenever the selection of a request returns AllRateLimited,
\* on the first selection or after earlier connections failed, the answer has
\* status 503 and its body carries the last error.
C15_Claimed ==
    [][\A q \in ChatReqs :
        AllRateLimitedStep(q) =>
            /\ chat'[q].response.status = 503
            /\ chat'[q].response.body # None]_vars

\* C16 as claimed: every answer with status 503 carries a Retry-After of at
\* least 1 second (retryAfter 0 stands for an answer without the header).
C16_Claimed ==
    \A q \in ChatReqs :
        chat[q].response.status = 503 => chat[q].response.retryAfter >= 1


\* ---------------------------------------------------------------- API keys
NoDash(id) == \A i \in 1 .. Len(id) : id[i] # "-"

\* C18 as claimed: for every machineId and keyId, parseApiKey applied to the
\* key sk-{machineId}-{keyId}-{crc8} issued for them returns that machineId
\* and keyId with isNewFormat true.
C18_Claimed ==
    (keyPc = "parsed" /\ ~tampered) =>
        parsedKey = [valid |-> TRUE, hasMachineId |-> TRUE, machineId |-> keyIds.machineId,
                  keyId |-> keyIds.keyId, isNewFormat |-> TRUE]

\* C18 amended: for every machineId and keyId that contain no "-", parseApiKey
\* applied to the key issued for them returns that machineId and keyId with
\* isNewFormat true.
C18_RoundTrip ==
    (keyPc = "parsed" /\ ~tampered /\ NoDash(keyIds.machineId) /\ NoDash(keyIds.keyId)) =>
        parsedKey = [valid |-> TRUE, hasMachineId |-> TRUE, machineId |-> keyIds.machineId,
                  keyId |-> keyIds.keyId, isNewFormat |-> TRUE]

C18_Witness ==
    /\ keyPc = "parsed"
    /\ ~tampered
    /\ keyIds = [machineId |-> <<"a", "b">>, keyId |-> <<"b">>]
    /\ parsedKey.valid
    /\ parsedKey.machineId = <<"a", "b">>
    /\ parsedKey.keyId = <<"b">>

\* C19: a key that parseApiKey accepts as a new-format key is rejected
\* (null) once any single character of it has been changed.
C19_TamperRejected ==
    (/\ keyPc = "parsed"
     /\ tampered
     /\ parseApiKey(formatApiKey(keyIds.machineId, keyIds.keyId)).isNewFormat)
        => ~parsedKey.valid

\* a key with a changed character of its machineId, still of four parts, was
\* rejected
C19_Witness ==
    /\ keyPc = "parsed"
    /\ tampered
    /\ parseApiKey(formatApiKey(keyIds.machineId, keyIds.keyId)).isNewFormat
    /\ Len(SplitOn(apiKey, "-", <<>>)) = 4
    /\ SplitOn(apiKey, "-", <<>>)[2] # keyIds.machineId
    /\ ~parsedKey.valid


\* -------------------------------------------------------------- authentication
\* the apiKeys entries with the key the request presented
Presented == {k \in apiKeys : k.key = extractBearerToken(gate.request)}

\* C17 as claimed: a chat or models request is authenticated only if the key
\* it presents is the key of an apiKeys entry whose isActive is true; with the
\* machine given in the path, a request whose key is missing, unknown or
\* paused is answered 401 and goes no further.
C17_Claimed ==
    gate.handler # "none" =>
        /\ gate.authenticated => \E k \in Presented : k.isActive
        /\ (gate.machineIdOverride = KnownMachine /\ ~(\E k \in Presented : k.isActive))
                => gate.status = 401 /\ ~gate.authenticated


\* ------------------------------------------------------------- auto-retry
\* C20 as claimed: a URL answered 429 without a usable Retry-After is retried
\* after 1 s at most MAX_AUTO_RETRIES (2) times during one execute.
C20_Claimed ==
    \A u \in 1 .. FallbackCount : execution.autoRetries[u] <= MAX_AUTO_RETRIES


\* ------------------------------------------------------ non-fallback errors
\* C30: when markAccountUnavailable is called with a status and error text
\* the fallback policy classifies as non-fallback, it takes the branch that
\* returns shouldFallback = false: no field of any connection and no model
\* lock is changed.
C30_NonFallbackChangesNothing ==
    [][\A r \in Reqs :
        (MarkStep(r) /\ ~Policy(r).shouldFallback) =>
            /\ conns' = conns
            /\ modelLocks' = modelLocks]_vars

\* markAccountUnavailable has read the connection for a 400 "bad request"
\* of a connection that failed before, and the policy answers no fallback
C30_Witness ==
    \E r \in Reqs :
        /\ pc[r] = "marking"
        /\ call[r].status = 400
        /\ ~Policy(r).shouldFallback
        /\ conns[call[r].result.connectionId].testStatus = "unavailable"


\* ----------------------------------------------- nothing eligible, none limited
\* the call of r ended without credentials
NoCredentialsFor(r) ==
    pc[r] = "idle" /\ call[r].result.kind \in {"allRateLimited", "null"}

\* an active connection was under an unexpired lock for the requested model
ModelLockedAt(o) ==
    /\ Multi
    /\ o.model # None
    /\ \E id \in ConnIds : o.conns[id].isActive /\ o.locks[<<id, o.model>>] > o.now

\* C28 as claimed: when getProviderCredentials finds no eligible connection
\* and no active connection with rateLimitedUntil > now, it returns
\* AllRateLimited with retryAfter = now + 60 s if an active connection is
\* model-locked for the requested model, and null otherwise.
C28_Claimed ==
    \A r \in Reqs :
        (NoCredentialsFor(r) /\ LimitedAt(obs[r]) = {}) =>
            IF ModelLockedAt(obs[r])
            THEN /\ call[r].result.kind = "allRateLimited"
                 /\ call[r].result.retryAfter = obs[r].now + MODEL_RETRY
            ELSE call[r].result.kind = "null"


\* ------------------------------------------------------- recency persisted
\* C29 as claimed: under both strategies, when getProviderCredentials has
\* returned a connection, the stored lastUsedAt of that connection is a
\* selection time not earlier than the call's own selection.
C29_Claimed ==
    \A r \in Reqs :
        Returned(r) =>
            LET id == call[r].result.connectionId
            IN  conns[id].lastUsedAt # 0 /\ conns[id].lastUsedAt >= obs[r].now

\* the awaited recency write of r lands and the call returns
RecencyWrite(r) == pc[r] = "write" /\ pc'[r] = "dispatch"

\* C29 amended: under round-robin, every successful selection persists the
\* recency update of the returned connection before getProviderCredentials
\* returns and while no other call is in its critical section: the stored
\* lastUsedAt is the time of the selection, and it is not earlier than any
\* lastUsedAt stored before, so the order of the lastUsedAt values is the
\* order of the selections.
C29_RecencyUnderMutex ==
    [][\A r \in Reqs :
        (settings.fallbackStrategy = "round-robin" /\ RecencyWrite(r)) =>
            LET id == call'[r].result.connectionId
            IN  /\ conns'[id].lastUsedAt = call[r].update.data.lastUsedAt
                /\ conns'[id].lastUsedAt >= obs[r].now
                /\ \A other \in ConnIds : conns[other].lastUsedAt <= conns'[id].lastUsedAt
                /\ \A q \in Reqs \ {r} : ~InCriticalSection(q)]_vars

\* two requests share connection A: q selected it after r did, r has not
\* completed yet, and the stored lastUsedAt is the time of q's selection
C29_Witness ==
    \E r, q \in Reqs :
        /\ r # q
        /\ settings.fallbackStrategy = "round-robin"
        /\ Returned(r) /\ Returned(q)
        /\ call[r].result.connectionId = "A" /\ call[q].result.connectionId = "A"
        /\ obs[r].now < obs[q].now
        /\ conns["A"].lastUsedAt >= obs[q].now
        /\ conns["A"].consecutiveUseCount = 2

\* C21: when the selected credential expires within five minutes and the
\* refresh returns a new access token, the stored connection holds the new
\* access token (and the returned refresh token) with expiresAt = the time of
\* the save + expiresIn, and the request is dispatched with the new access
\* token; when it expires five minutes from now or later, no refresh is
\* attempted
C21_RefreshPersisted ==
    /\ (refresh.pc \in {"ready", "dispatched"} /\ refresh.attempted
            /\ hasAccessToken(refresh.newCredentials)) =>
          /\ refresh.credentials.expiresAt - refresh.checkedAt < TOKEN_EXPIRY_BUFFER_MS
          /\ refresh.stored.accessToken = refresh.newCredentials.accessToken
          /\ refresh.stored.refreshToken = refresh.newCredentials.refreshToken
          /\ refresh.newCredentials.expiresIn # 0 =>
                refresh.stored.expiresAt = refresh.savedAt + refresh.newCredentials.expiresIn
          /\ refresh.pc = "dispatched" =>
                refresh.sent = refresh.newCredentials.accessToken
    /\ (refresh.pc \in {"ready", "dispatched"}
            /\ refresh.credentials.expiresAt - refresh.checkedAt >= TOKEN_EXPIRY_BUFFER_MS) =>
          /\ ~refresh.attempted
          /\ refresh.stored = refresh.credentials

C21_Witness ==
    /\ refresh.pc = "dispatched"
    /\ refresh.attempted
    /\ refresh.credentials.expiresAt = 21
    /\ refresh.checkedAt = 2
    /\ refresh.newCredentials.accessToken = "t1"
    /\ refresh.newCredentials.refreshToken = "r1"
    /\ refresh.stored.expiresAt = refresh.savedAt + 240
    /\ refresh.savedAt > refresh.checkedAt
    /\ refresh.sent = "t1"

\* C22: when a near-expiry refresh fails (no refresh token, a response that
\* is not ok, a thrown error, a result without an access token), the stored
\* connection is unchanged, not marked failed, and the request is dispatched
\* with the current token
C22_RefreshFailureKeepsToken ==
    (refresh.pc \in {"ready", "dispatched"} /\ refresh.attempted
        /\ ~(refresh.newCredentials.accessToken = "t1")) =>
       /\ refresh.stored = refresh.credentials
       /\ refresh.stored.testStatus = "active"
       /\ refresh.refreshed = refresh.credentials
       /\ refresh.pc = "dispatched" => refresh.sent = refresh.credentials.accessToken

C22_Witness ==
    /\ refresh.pc = "dispatched"
    /\ refresh.attempted
    /\ refresh.credentials.refreshToken = "r0"
    /\ ~refresh.newCredentials.isNull
    /\ refresh.newCredentials.accessToken = None
    /\ refresh.stored = refresh.credentials
    /\ refresh.sent = "t0"

\* C23: when the upstream body fails or is aborted after at least one chunk
\* was forwarded, the client stream still ends with the terminator and the
\* end-of-stream accounting (usage or request log, onStreamComplete) runs
\* with the content accumulated so far
C23_Claimed ==
    (engine.pc = "errored" /\ engine.out # <<>>) =>
       /\ engine.out[Len(engine.out)] = doneItem
       /\ engine.logged # None
       /\ engine.completed.called
       /\ engine.completed.content = engine.accumulatedContent

\* C25: in translate mode, a chunk whose detected format differs from the
\* target format sets state.detectedFormat when it is not set yet; once set
\* it never changes, and every later chunk and the flush are translated from
\* it, whatever markers they carry
C25_DetectedFormatSticks ==
    [][/\ engine.detectedFormat # None =>
            /\ engine'.detectedFormat = engine.detectedFormat
            /\ \A i \in Len(engine.used) + 1 .. Len(engine'.used) :
                  engine'.used[i] = engine.detectedFormat
       /\ (/\ engine.mode = "translate"
           /\ engine.detectedFormat = None
           /\ Len(engine'.used) > Len(engine.used)
           /\ engine.upstream # <<>>
           /\ detectResponseFormat(Head(engine.upstream)) \notin {None, engine.targetFormat}) =>
             /\ engine'.detectedFormat = detectResponseFormat(Head(engine.upstream))
             /\ engine'.used[Len(engine'.used)] = engine'.detectedFormat]_vars

C25_Witness ==
    /\ engine.pc = "flushed"
    /\ engine.mode = "translate"
    /\ engine.targetFormat = "openai"
    /\ engine.detectedFormat = "claude"
    /\ engine.seen = <<"openai", "claude", "gemini">>
    /\ engine.used = <<"openai", "claude", "claude", "claude">>

\* C26: with an OpenAI client and a provider configured as OpenAI whose
\* stream carries Claude events, the engine detects Claude and every chunk it
\* emits is an OpenAI chunk
C26_Claimed ==
    (/\ engine.sourceFormat = "openai"
     /\ engine.targetFormat = "openai"
     /\ engine.pc = "flushed"
     /\ engine.seen # <<>>
     /\ \A i \in 1 .. Len(engine.seen) : engine.seen[i] = "claude") =>
       /\ engine.detectedFormat = "claude"
       /\ \A i \in 1 .. Len(engine.out) : engine.out[i].format \in {"openai", "done"}

\* C27: in both modes, every finish chunk emitted to the client carries a
\* usage object, the provider's or an estimate
C27_Claimed ==
    \A i \in 1 .. Len(engine.out) :
        engine.out[i].finish => engine.out[i].usage # None

C38_Claimed ==
    (streamPc = "flushed" /\ mode = "passthrough" /\ buffer # <<>>) =>
       /\ Len(controller) > Len(doneOutput)
       /\ controller[Len(controller) - Len(doneOutput)] = "n"

\* C36: the selection mutex is released on every exit path of
\* getProviderCredentials (credential, AllRateLimited, null, a thrown storage
\* error): the promises still pending are those of the calls still inside,
\* and every queued call eventually enters the critical section
InSelection(r) == pc[r] \in {"waiting", "settings", "write"}

C36_MutexReleased ==
    /\ [](Cardinality((0 .. selectionMutex) \ resolved)
            = Cardinality({r \in Reqs : InSelection(r)}))
    /\ \A r \in Reqs : (pc[r] = "waiting") ~> (pc[r] # "waiting")

C36_Witness ==
    \E r, q \in Reqs :
        /\ r # q
        /\ pc[r] = "idle"
        /\ call[r].result.kind = "thrown"
        /\ selectionMutex = 2
        /\ call[q].currentMutex = 1
        /\ pc[q] = "settings"

\* C34 as claimed: execute terminates whatever the upstream answers: the
\* call ends by returning a response or throwing
C34_Claimed == <>(execution.pc = "done")

\* C35 as claimed: within one client request the fallback loop dispatches to
\* each connection at most once, so it ends after at most as many dispatches
\* as there are connections
C35_Claimed ==
    \A q \in ChatReqs :
        /\ Len(chat[q].dispatched) <= Cardinality(ConnIds)
        /\ \A i, j \in 1 .. Len(chat[q].dispatched) :
              i # j => chat[q].dispatched[i] # chat[q].dispatched[j]

\* C31 as claimed: the health writes are last-write-wins per connection: a
\* write for one connection leaves the stored state of every other
\* connection of the machine as it is
C31_Claimed ==
    [][\A q \in ChatReqs :
          (chatPc[q] \in {"marking", "clearing"} /\ chatPc'[q] # chatPc[q]) =>
              \A id \in ConnIds \ {chat[q].credentials.id} :
                  machine'[id] = machine[id]]_vars

\* C32 as claimed: the completion length given to the usage estimator is the
\* length of the visible assistant text; reasoning / thinking text does not
\* increase it
C32_Claimed ==
    \A i \in 1 .. Len(engine.estimates) :
        engine.estimates[i].contentLength = engine.estimates[i].contentLen

\* C37 as claimed: once a usage reported by the provider was captured, the
\* usage kept for the end-of-stream log and handed to onStreamComplete is the
\* provider's, in either mode: no estimate replaces it
C37_Claimed ==
    engine.captured =>
       /\ (IF engine.mode = "passthrough" THEN engine.usage ELSE engine.stateUsage) = "reported"
       /\ engine.completed.called => engine.completed.usage = "reported"

\* C39 as claimed: parseApiKey accepts no key while returning a machineId
\* other than the one the key was issued for; the crc8 of one (machineId,
\* keyId) pair validates no other pair, pairs with the same concatenation
\* included
C39_Claimed ==
    (keyPc = "parsed" /\ parsedKey.valid /\ parsedKey.isNewFormat) =>
        /\ parsedKey.machineId = keyIds.machineId
        /\ parsedKey.keyId = keyIds.keyId

\* C33 as claimed: in the Kiro payload user and assistant turns strictly
\* alternate along history followed by currentMessage: consecutive user
\* turns are merged, so no two adjacent entries are both user turns
C33_Claimed ==
    kiro.pc = "built" =>
        LET turns == Append(kiro.history, kiro.currentMessage)
        IN  \A i \in 1 .. Len(turns) - 1 :
                ~(turns[i].role = "user" /\ turns[i + 1].role = "user")

\* C40 as claimed: every detail that saveRequestDetail accepted is eventually
\* handed to a flush, even if no further detail arrives; whenever the buffer
\* is non-empty a flush timer is armed (a flush in progress took its snapshot
\* when it started and takes nothing buffered since)
C40_Claimed ==
    /\ [](queue.writeBuffer # <<>> => queue.flushTimer)
    /\ \A d \in Details : InBuffer(d) ~> (d \in queue.handed)

=============================================================================
